---- MODULE Spec2Model ----
(***************************************************************************)
(* A model of the cbor-go runtime codec: the wire primitives, the          *)
(* appenders, the stateless byte-slice readers, Skip, the well-formedness  *)
(* check and the stateful Reader with its strict / deterministic modes     *)
(* and its container limit.                                                *)
(*                                                                         *)
(* Representation.  A byte is a number in 0..255 and a buffer is a        *)
(* sequence of bytes.  A 64-bit quantity (uint64, int64, the bits of a     *)
(* float64) is the sequence of its 8 big-endian bytes, an int64 in two's   *)
(* complement, so that every comparison and every wrap-around happens at   *)
(* the width the Go code has.  A result of a reader is a record            *)
(* [err, val, rest]; err = "nil" means success.                            *)
(***************************************************************************)
EXTENDS Integers, Sequences, FiniteSets, TLC

VARIABLES
    buf,            \* Reader.buf: the unread bytes
    strict,         \* Reader.strict
    deterministic,  \* Reader.deterministic
    maxContainer,   \* Reader.maxContainer
    lastOp,         \* the Reader method called last
    lastErr,        \* the error it returned ("nil" for none)
    lastVal,        \* the value it returned
    val,            \* codec harness: the typed value handed to an appender
    wire,           \* codec harness: the bytes under the appender / reader
    fn,             \* codec harness: the function applied last
    res,            \* codec harness: what that function returned
    bbPool,         \* bytebufferpool.go: the ByteBuffers that are in the pool
    buffers,        \* the ByteBuffers made so far: buffers[i] is len(bb.b) of buffer i
    calls,          \* the DiagBytes and ToJSONBytes calls that run concurrently
    generatedStructs \* cborgen: the package variable generatedStructs

readerVars == <<buf, strict, deterministic, maxContainer, lastOp, lastErr, lastVal>>
codecVars == <<val, wire, fn, res>>
poolVars == <<bbPool, buffers, calls>>
vars == <<buf, strict, deterministic, maxContainer, lastOp, lastErr, lastVal,
          val, wire, fn, res, bbPool, buffers, calls, generatedStructs>>

----------------------------------------------------------------------------
(* Bounds of the model.                                                    *)

\* longest run of payload bytes put after a header in a Reader buffer
MaxTail == 3
\* longest run of payload bytes put after a header in a stateless-reader input
MaxBytesTail == 3
\* longest run of payload bytes inside the item that follows a tag header
MaxTagTail == 2
\* longest text / byte string whose every content is enumerated
MaxStrLen == 2
\* the container limits a caller sets are 0 (off) and 1..MaxLimit
MaxLimit == 2

----------------------------------------------------------------------------
(* defs.go: major types, additional info, simple values, tags.             *)

recursionLimit == 100000

majorTypeUint == 0
majorTypeNegInt == 1
majorTypeBytes == 2
majorTypeText == 3
majorTypeArray == 4
majorTypeMap == 5
majorTypeTag == 6
majorTypeSimple == 7

addInfoDirect == 23
addInfoUint8 == 24
addInfoUint16 == 25
addInfoUint32 == 26
addInfoUint64 == 27
addInfoIndefinite == 31

simpleFalse == 20
simpleTrue == 21
simpleNull == 22
simpleUndefined == 23
simpleFloat16 == 25
simpleFloat32 == 26
simpleFloat64 == 27
simpleBreak == 31

tagDateTimeString == 0
tagEpochDateTime == 1
tagPosBignum == 2
tagNegBignum == 3
tagDecimalFrac == 4
tagBigfloat == 5
tagBase64URL == 21
tagBase64 == 22
tagBase16 == 23
tagCBOR == 24
tagURI == 32
tagBase64URLString == 33
tagBase64String == 34
tagRegexp == 35
tagMIME == 36
tagUUID == 37
tagSelfDescribeCBOR == 55799

ValidateUTF8OnDecode == TRUE

makeByte(majorType, addInfo) == (majorType * 32 + addInfo) % 256
getMajorType(b) == (b \div 32) % 8
getAddInfo(b) == b % 32

----------------------------------------------------------------------------
(* Byte sequences and 64-bit quantities.                                   *)

\* b[n:]
Drop(b, n) == SubSeq(b, n + 1, Len(b))
\* b[:n]
Take(b, n) == SubSeq(b, 1, n)
\* n copies of the byte x
Rep(x, n) == [i \in 1..n |-> x]

\* uint64(x) of an unsigned quantity given by at most 8 big-endian bytes
Pad8(s) == Rep(0, 8 - Len(s)) \o s
\* uint64(n) of a number 0 <= n < 2^31
U64(n) == <<0, 0, 0, 0, (n \div 16777216) % 256, (n \div 65536) % 256,
            (n \div 256) % 256, n % 256>>
Zero64 == U64(0)

RECURSIVE LtBytes(_, _)
\* a < b for two unsigned quantities of the same number of bytes
LtBytes(a, b) ==
    IF Len(a) = 0 THEN FALSE
    ELSE IF a[1] # b[1] THEN a[1] < b[1]
    ELSE LtBytes(Tail(a), Tail(b))
LeqBytes(a, b) == ~LtBytes(b, a)

\* the number a 64-bit quantity stands for, when that is below 2^24
IsSmall64(u) == \A i \in 1..5 : u[i] = 0
Nat64(u) == u[6] * 65536 + u[7] * 256 + u[8]

\* -1 - x at 64 bits (two's complement): the bitwise complement
Not64(u) == [i \in 1..8 |-> 255 - u[i]]
\* the sign bit of an int64
IsNeg64(u) == u[1] >= 128

MaxUint8 == U64(255)
MaxUint16 == U64(65535)
MaxUint32 == <<0, 0, 0, 0, 255, 255, 255, 255>>
MaxInt64 == <<127, 255, 255, 255, 255, 255, 255, 255>>

\* v bound to the parameter of F: With(e, LAMBDA x: body) is body with x
\* standing for the value of e, which is computed once
With(v, F(_)) == F(v)

Res(e, v, r) == [err |-> e, val |-> v, rest |-> r]
NoVal == "none"

----------------------------------------------------------------------------
(* read_bytes.go: header readers.                                          *)

readUintCore(b, expectedMajor) ==
    IF Len(b) < 1 THEN Res("ErrShortBytes", Zero64, b)
    ELSE LET major == getMajorType(b[1])
             addInfo == getAddInfo(b[1])
         IN  IF major # expectedMajor THEN Res("InvalidPrefixError", Zero64, b)
             ELSE IF addInfo <= addInfoDirect THEN Res("nil", U64(addInfo), Drop(b, 1))
             ELSE IF addInfo = addInfoUint8 THEN
                 IF Len(b) < 2 THEN Res("ErrShortBytes", Zero64, b)
                 ELSE Res("nil", Pad8(SubSeq(b, 2, 2)), Drop(b, 2))
             ELSE IF addInfo = addInfoUint16 THEN
                 IF Len(b) < 3 THEN Res("ErrShortBytes", Zero64, b)
                 ELSE Res("nil", Pad8(SubSeq(b, 2, 3)), Drop(b, 3))
             ELSE IF addInfo = addInfoUint32 THEN
                 IF Len(b) < 5 THEN Res("ErrShortBytes", Zero64, b)
                 ELSE Res("nil", Pad8(SubSeq(b, 2, 5)), Drop(b, 5))
             ELSE IF addInfo = addInfoUint64 THEN
                 IF Len(b) < 9 THEN Res("ErrShortBytes", Zero64, b)
                 ELSE Res("nil", SubSeq(b, 2, 9), Drop(b, 9))
             ELSE Res("ErrUnsupportedType", Zero64, b)

\* ReadMapHeaderBytes and ReadArrayHeaderBytes share this shape; lead0 is
\* 0xa0 for maps and 0x80 for arrays.
readHeader32(b, lead0, major) ==
    IF Len(b) < 1 THEN Res("ErrShortBytes", Zero64, b)
    ELSE LET lead == b[1] IN
         IF lead >= lead0 /\ lead <= lead0 + 23 THEN Res("nil", U64(lead - lead0), Drop(b, 1))
         ELSE IF lead = lead0 + 24 THEN
             IF Len(b) < 2 THEN Res("ErrShortBytes", Zero64, b)
             ELSE Res("nil", Pad8(SubSeq(b, 2, 2)), Drop(b, 2))
         ELSE IF lead = lead0 + 25 THEN
             IF Len(b) < 3 THEN Res("ErrShortBytes", Zero64, b)
             ELSE Res("nil", Pad8(SubSeq(b, 2, 3)), Drop(b, 3))
         ELSE IF lead = lead0 + 26 THEN
             IF Len(b) < 5 THEN Res("ErrShortBytes", Zero64, b)
             ELSE Res("nil", Pad8(SubSeq(b, 2, 5)), Drop(b, 5))
         ELSE IF lead = lead0 + 27 THEN
             IF Len(b) < 9 THEN Res("ErrShortBytes", Zero64, b)
             ELSE LET u == SubSeq(b, 2, 9) IN
                  IF LtBytes(MaxUint32, u) THEN Res("UintOverflow", Zero64, b)
                  ELSE Res("nil", u, Drop(b, 9))
         ELSE Res("InvalidPrefixError", Zero64, b)

ReadMapHeaderBytes(b) == readHeader32(b, 160, majorTypeMap)
ReadArrayHeaderBytes(b) == readHeader32(b, 128, majorTypeArray)

\* the value is [sz, indefinite]
ReadMapStartBytes(b) ==
    IF Len(b) < 1 THEN Res("ErrShortBytes", [sz |-> Zero64, indefinite |-> FALSE], b)
    ELSE IF b[1] = makeByte(majorTypeMap, addInfoIndefinite)
         THEN Res("nil", [sz |-> Zero64, indefinite |-> TRUE], Drop(b, 1))
    ELSE With(ReadMapHeaderBytes(b), LAMBDA r:
         Res(r.err, [sz |-> r.val, indefinite |-> FALSE], r.rest))

ReadArrayStartBytes(b) ==
    IF Len(b) < 1 THEN Res("ErrShortBytes", [sz |-> Zero64, indefinite |-> FALSE], b)
    ELSE IF b[1] = makeByte(majorTypeArray, addInfoIndefinite)
         THEN Res("nil", [sz |-> Zero64, indefinite |-> TRUE], Drop(b, 1))
    ELSE With(ReadArrayHeaderBytes(b), LAMBDA r:
         Res(r.err, [sz |-> r.val, indefinite |-> FALSE], r.rest))

ReadBreakBytes(b) ==
    IF Len(b) < 1 THEN Res("ErrShortBytes", FALSE, b)
    ELSE IF b[1] = makeByte(majorTypeSimple, simpleBreak) THEN Res("nil", TRUE, Drop(b, 1))
    ELSE Res("nil", FALSE, b)

ReadNilBytes(b) ==
    IF Len(b) < 1 THEN Res("ErrShortBytes", NoVal, b)
    ELSE IF b[1] # makeByte(majorTypeSimple, simpleNull) THEN Res("ErrNotNil", NoVal, b)
    ELSE Res("nil", NoVal, Drop(b, 1))

----------------------------------------------------------------------------
(* Floats.  A float32 is the 4 bytes of its bits, a float64 the 8 bytes,   *)
(* a float16 the 2 bytes.                                                  *)

\* the float32 with sign s (0/1), biased exponent e and mantissa m < 2^23
F32(s, e, m) == <<s * 128 + e \div 2, (e % 2) * 128 + m \div 65536,
                  (m \div 256) % 256, m % 256>>
F32Sign(f) == f[1] \div 128
F32Exp(f) == (f[1] % 128) * 2 + f[2] \div 128
F32Mant(f) == (f[2] % 128) * 65536 + f[3] * 256 + f[4]

\* position of the highest set bit of m, 0 < m < 2^10
HighBit10(m) == CHOOSE p \in 0..9 : m >= 2^p /\ m < 2^(p + 1)

float16BitsToFloat32(h) ==
    LET sign == h[1] \div 128
        exp == (h[1] % 128) \div 4
        mant == (h[1] % 4) * 256 + h[2]
    IN  IF exp = 0 THEN
            IF mant = 0 THEN F32(sign, 0, 0)
            ELSE \* float32(math.Ldexp(mant, -24)): normalise mant * 2^-24
                 LET p == HighBit10(mant) IN
                 F32(sign, p + 103, (mant - 2^p) * 2^(23 - p))
        ELSE IF exp = 31 THEN F32(sign, 255, mant * 8192)
        ELSE F32(sign, exp - 15 + 127, mant * 8192)

ReadFloat64Bytes(b) ==
    IF Len(b) < 9 THEN Res("ErrShortBytes", Zero64, b)
    ELSE IF b[1] # 251 THEN Res("InvalidPrefixError", Zero64, b)
    ELSE Res("nil", SubSeq(b, 2, 9), Drop(b, 9))

ReadFloat32Bytes(b) ==
    IF Len(b) < 5 THEN Res("ErrShortBytes", F32(0, 0, 0), b)
    ELSE IF b[1] # 250 THEN Res("InvalidPrefixError", F32(0, 0, 0), b)
    ELSE Res("nil", SubSeq(b, 2, 5), Drop(b, 5))

ReadFloat16Bytes(b) ==
    IF Len(b) < 3 THEN Res("ErrShortBytes", F32(0, 0, 0), b)
    ELSE IF b[1] # 249 THEN Res("InvalidPrefixError", F32(0, 0, 0), b)
    ELSE Res("nil", float16BitsToFloat32(SubSeq(b, 2, 3)), Drop(b, 3))

ReadBoolBytes(b) ==
    IF Len(b) < 1 THEN Res("ErrShortBytes", FALSE, b)
    ELSE IF b[1] = 245 THEN Res("nil", TRUE, Drop(b, 1))
    ELSE IF b[1] = 244 THEN Res("nil", FALSE, Drop(b, 1))
    ELSE Res("TypeError", FALSE, b)

----------------------------------------------------------------------------
(* Integers.                                                               *)

ReadInt64Bytes(b) ==
    IF Len(b) < 1 THEN Res("ErrShortBytes", Zero64, b)
    ELSE LET lead == b[1] IN
         IF lead <= 23 THEN Res("nil", U64(lead), Drop(b, 1))
         ELSE IF lead = 24 THEN
             IF Len(b) < 2 THEN Res("ErrShortBytes", Zero64, b)
             ELSE Res("nil", Pad8(SubSeq(b, 2, 2)), Drop(b, 2))
         ELSE IF lead = 25 THEN
             IF Len(b) < 3 THEN Res("ErrShortBytes", Zero64, b)
             ELSE Res("nil", Pad8(SubSeq(b, 2, 3)), Drop(b, 3))
         ELSE IF lead = 26 THEN
             IF Len(b) < 5 THEN Res("ErrShortBytes", Zero64, b)
             ELSE Res("nil", Pad8(SubSeq(b, 2, 5)), Drop(b, 5))
         ELSE IF lead = 27 THEN
             IF Len(b) < 9 THEN Res("ErrShortBytes", Zero64, b)
             ELSE LET u == SubSeq(b, 2, 9) IN
                  IF LtBytes(MaxInt64, u) THEN Res("IntOverflow", Zero64, b)
                  ELSE Res("nil", u, Drop(b, 9))
         ELSE IF lead >= 32 /\ lead <= 55 THEN Res("nil", Not64(U64(lead - 32)), Drop(b, 1))
         ELSE IF lead = 56 THEN
             IF Len(b) < 2 THEN Res("ErrShortBytes", Zero64, b)
             ELSE Res("nil", Not64(Pad8(SubSeq(b, 2, 2))), Drop(b, 2))
         ELSE IF lead = 57 THEN
             IF Len(b) < 3 THEN Res("ErrShortBytes", Zero64, b)
             ELSE Res("nil", Not64(Pad8(SubSeq(b, 2, 3))), Drop(b, 3))
         ELSE IF lead = 58 THEN
             IF Len(b) < 5 THEN Res("ErrShortBytes", Zero64, b)
             ELSE Res("nil", Not64(Pad8(SubSeq(b, 2, 5))), Drop(b, 5))
         ELSE IF lead = 59 THEN
             IF Len(b) < 9 THEN Res("ErrShortBytes", Zero64, b)
             ELSE LET u == SubSeq(b, 2, 9) IN
                  IF LtBytes(MaxInt64, u) THEN Res("IntOverflow", Zero64, b)
                  ELSE Res("nil", Not64(u), Drop(b, 9))
         ELSE Res("InvalidPrefixError", Zero64, b)

\* an int64 lies in the range of an int of "bits" bits (8, 16, 32, 64):
\* its top bytes and the sign bit of the narrow value are all 0 or all 1
FitsInt(v, bits) ==
    LET k == 8 - bits \div 8 IN
    \/ (\A i \in 1..k : v[i] = 0) /\ v[k + 1] < 128
    \/ (\A i \in 1..k : v[i] = 255) /\ v[k + 1] >= 128

\* ReadInt32Bytes, ReadInt16Bytes, ReadInt8Bytes (bits = 32, 16, 8)
ReadIntNBytes(b, bits) ==
    With(ReadInt64Bytes(b), LAMBDA r:
    IF r.err # "nil" THEN Res(r.err, Zero64, b)
    ELSE IF ~FitsInt(r.val, bits) THEN Res("IntOverflow", Zero64, b)
    ELSE Res("nil", r.val, r.rest))

\* int is 64 bits wide
ReadIntBytes(b) ==
    With(ReadInt64Bytes(b), LAMBDA r:
    IF r.err # "nil" THEN Res(r.err, Zero64, b)
    ELSE Res("nil", r.val, r.rest))

ReadUint64Bytes(b) == readUintCore(b, majorTypeUint)

\* a uint64 lies in the range of a uint of "bits" bits
FitsUint(u, bits) == \A i \in 1..(8 - bits \div 8) : u[i] = 0

\* ReadUint32Bytes, ReadUint16Bytes, ReadUint8Bytes (bits = 32, 16, 8)
ReadUintNBytes(b, bits) ==
    With(readUintCore(b, majorTypeUint), LAMBDA r:
    IF r.err # "nil" THEN Res(r.err, Zero64, b)
    ELSE IF ~FitsUint(r.val, bits) THEN Res("UintOverflow", Zero64, b)
    ELSE Res("nil", r.val, r.rest))

ReadUintBytes(b) ==
    With(readUintCore(b, majorTypeUint), LAMBDA r:
    IF r.err # "nil" THEN Res(r.err, Zero64, b)
    ELSE Res("nil", r.val, r.rest))

ReadDurationBytes(b) ==
    With(ReadInt64Bytes(b), LAMBDA r:
    IF r.err # "nil" THEN Res(r.err, Zero64, b)
    ELSE Res("nil", r.val, r.rest))

----------------------------------------------------------------------------
(* Byte strings and text strings.                                          *)

IsCont(c) == c >= 128 /\ c <= 191

\* utf8.Valid: shortest-form UTF-8 of scalar values, surrogates excluded.
\* Every byte that is not a continuation byte starts a character of the
\* length its value announces, followed by exactly that many continuation
\* bytes, and the text does not start with a continuation byte.
isUTF8Valid(s) ==
    LET n == Len(s)
        \* the bytes i+1..i+k exist and are continuation bytes, and no
        \* continuation byte follows them
        Conts(i, k) ==
            /\ i + k <= n
            /\ \A j \in (i + 1)..(i + k) : IsCont(s[j])
            /\ (i + k + 1 <= n => ~IsCont(s[i + k + 1]))
    IN  /\ (n > 0 => ~IsCont(s[1]))
        /\ \A i \in 1..n :
              LET c == s[i] IN
              IF c < 128 THEN Conts(i, 0)
              ELSE IF IsCont(c) THEN TRUE
              ELSE IF c >= 194 /\ c <= 223 THEN Conts(i, 1)
              ELSE IF c >= 224 /\ c <= 239 THEN
                  /\ Conts(i, 2)
                  /\ (c = 224 => s[i + 1] >= 160)
                  /\ (c = 237 => s[i + 1] <= 159)
              ELSE IF c >= 240 /\ c <= 244 THEN
                  /\ Conts(i, 3)
                  /\ (c = 240 => s[i + 1] >= 144)
                  /\ (c = 244 => s[i + 1] <= 143)
              ELSE FALSE

RECURSIVE AddCarry(_, _)
\* u + n at the width of u, wrapping around (n < 2^16)
AddCarry(u, n) ==
    IF Len(u) = 0 THEN <<>>
    ELSE LET k == Len(u)
             t == u[k] + n
         IN  Append(AddCarry(Take(u, k - 1), t \div 256), t % 256)

\* the body of a definite-length string whose header takes "start" bytes
\* and announces sz bytes, with the bound check written as len(b) < start+sz
\* in int arithmetic: start+sz wraps to a negative int when sz is close to
\* MaxInt64, the check passes and the slice expression panics
bodyAtInt(b, start, sz) ==
    IF IsNeg64(AddCarry(sz, start)) THEN Res("panic", <<>>, b)
    ELSE IF LtBytes(U64(Len(b)), AddCarry(sz, start)) THEN Res("ErrShortBytes", <<>>, b)
    ELSE LET n == Nat64(sz) IN
         IF n = 0 THEN Res("nil", <<>>, Drop(b, start))
         ELSE Res("nil", SubSeq(b, start + 1, start + n), Drop(b, start + n))

\* the body of a string of sz bytes at the head of o, with the bound check
\* written as uint64(len(o)) < sz
bodyAtUint(b, o, sz) ==
    IF LtBytes(U64(Len(o)), sz) THEN Res("ErrShortBytes", <<>>, b)
    ELSE LET n == Nat64(sz) IN Res("nil", Take(o, n), Drop(o, n))

RECURSIVE readBytesChunks(_, _, _)
\* the loop of ReadBytesBytes over the chunks of an indefinite byte string
readBytesChunks(p, out, b) ==
    IF Len(p) < 1 THEN Res("ErrShortBytes", <<>>, b)
    ELSE IF p[1] = makeByte(majorTypeSimple, simpleBreak) THEN Res("nil", out, Drop(p, 1))
    ELSE With(readUintCore(p, majorTypeBytes), LAMBDA h:
         IF h.err # "nil" THEN Res(h.err, <<>>, b)
         ELSE IF LtBytes(U64(Len(h.rest)), h.val) THEN Res("ErrShortBytes", <<>>, b)
         ELSE LET n == Nat64(h.val) IN
              readBytesChunks(Drop(h.rest, n), out \o Take(h.rest, n), b))

\* scratch is nil at every call site of the model: the value of an empty
\* string is the empty slice
ReadBytesBytes(b) ==
    IF Len(b) < 1 THEN Res("ErrShortBytes", <<>>, b)
    ELSE IF b[1] = makeByte(majorTypeBytes, addInfoIndefinite)
         THEN readBytesChunks(Drop(b, 1), <<>>, b)
    ELSE LET lead == b[1] IN
         IF lead >= 64 /\ lead <= 87 THEN bodyAtInt(b, 1, U64(lead % 32))
         ELSE IF lead = 88 THEN
             IF Len(b) < 2 THEN Res("ErrShortBytes", <<>>, b)
             ELSE bodyAtInt(b, 2, Pad8(SubSeq(b, 2, 2)))
         ELSE IF lead = 89 THEN
             IF Len(b) < 3 THEN Res("ErrShortBytes", <<>>, b)
             ELSE bodyAtInt(b, 3, Pad8(SubSeq(b, 2, 3)))
         ELSE IF lead = 90 THEN
             IF Len(b) < 5 THEN Res("ErrShortBytes", <<>>, b)
             ELSE bodyAtInt(b, 5, Pad8(SubSeq(b, 2, 5)))
         ELSE IF lead = 91 THEN
             IF Len(b) < 9 THEN Res("ErrShortBytes", <<>>, b)
             ELSE LET u64 == SubSeq(b, 2, 9) IN
                  IF LtBytes(MaxInt64, u64) THEN Res("UintOverflow", <<>>, b)
                  ELSE bodyAtInt(b, 9, u64)
         ELSE With(readUintCore(b, majorTypeBytes), LAMBDA h:
              IF h.err # "nil" THEN Res(h.err, <<>>, b)
              ELSE bodyAtUint(b, h.rest, h.val))

\* the guarded slice of ReadStringZC: sz > len(b) - start is short input
ReadStringZC(b) ==
    IF Len(b) < 1 THEN Res("ErrShortBytes", <<>>, b)
    ELSE LET lead == b[1]
             body(start, sz) ==
                 IF start > Len(b) THEN Res("ErrShortBytes", <<>>, b)
                 ELSE IF LtBytes(U64(Len(b) - start), sz) THEN Res("ErrShortBytes", <<>>, b)
                 ELSE LET n == Nat64(sz) IN
                      Res("nil", SubSeq(b, start + 1, start + n), Drop(b, start + n))
         IN
         IF lead >= 96 /\ lead <= 119 THEN
             LET sz == lead % 32 IN
             IF Len(b) < 1 + sz THEN Res("ErrShortBytes", <<>>, b)
             ELSE Res("nil", SubSeq(b, 2, 1 + sz), Drop(b, 1 + sz))
         ELSE IF lead = 120 THEN
             IF Len(b) < 2 THEN Res("ErrShortBytes", <<>>, b)
             ELSE body(2, Pad8(SubSeq(b, 2, 2)))
         ELSE IF lead = 121 THEN
             IF Len(b) < 3 THEN Res("ErrShortBytes", <<>>, b)
             ELSE body(3, Pad8(SubSeq(b, 2, 3)))
         ELSE IF lead = 122 THEN
             IF Len(b) < 5 THEN Res("ErrShortBytes", <<>>, b)
             ELSE body(5, Pad8(SubSeq(b, 2, 5)))
         ELSE IF lead = 123 THEN
             IF Len(b) < 9 THEN Res("ErrShortBytes", <<>>, b)
             ELSE LET u64 == SubSeq(b, 2, 9) IN
                  IF LtBytes(MaxInt64, u64) THEN Res("UintOverflow", <<>>, b)
                  ELSE body(9, u64)
         ELSE Res("InvalidPrefixError", <<>>, b)

RECURSIVE readStringChunks(_, _, _)
\* the loop of ReadStringBytes over the chunks of an indefinite text string
readStringChunks(p, out, b) ==
    IF Len(p) < 1 THEN Res("ErrShortBytes", <<>>, b)
    ELSE IF p[1] = makeByte(majorTypeSimple, simpleBreak) THEN
         IF ValidateUTF8OnDecode /\ ~isUTF8Valid(out) THEN Res("ErrInvalidUTF8", <<>>, b)
         ELSE Res("nil", out, Drop(p, 1))
    ELSE With(ReadStringZC(p), LAMBDA c:
         IF c.err # "nil" THEN Res(c.err, <<>>, b)
         ELSE readStringChunks(c.rest, out \o c.val, b))

ReadStringBytes(b) ==
    IF Len(b) < 1 THEN Res("ErrShortBytes", <<>>, b)
    ELSE IF b[1] = makeByte(majorTypeText, addInfoIndefinite)
         THEN readStringChunks(Drop(b, 1), <<>>, b)
    ELSE With(ReadStringZC(b), LAMBDA r:
         IF r.err # "nil" THEN Res(r.err, <<>>, b)
         ELSE IF ValidateUTF8OnDecode /\ ~isUTF8Valid(r.val) THEN Res("ErrInvalidUTF8", <<>>, b)
         ELSE Res("nil", r.val, r.rest))

ReadMapKeyZC(b) ==
    IF Len(b) < 1 THEN Res("ErrShortBytes", <<>>, b)
    ELSE IF getMajorType(b[1]) # majorTypeText THEN Res("TypeError", <<>>, b)
    ELSE ReadStringZC(b)

ReadSimpleValue(b) ==
    IF Len(b) < 1 THEN Res("ErrShortBytes", 0, b)
    ELSE LET major == getMajorType(b[1])
             addInfo == getAddInfo(b[1])
         IN  IF major # majorTypeSimple THEN Res("InvalidPrefixError", 0, b)
             ELSE IF addInfo \in {simpleFloat16, simpleFloat32, simpleFloat64}
                  THEN Res("ErrUnsupportedType", 0, b)
             ELSE IF addInfo = addInfoUint8 THEN
                 IF Len(b) < 2 THEN Res("ErrShortBytes", 0, b)
                 ELSE Res("nil", b[2], Drop(b, 2))
             ELSE IF addInfo <= addInfoDirect THEN Res("nil", addInfo, Drop(b, 1))
             ELSE Res("ErrUnsupportedType", 0, b)

----------------------------------------------------------------------------
(* Skip.                                                                   *)

RECURSIVE skip(_, _)
RECURSIVE skipItems(_, _, _)
RECURSIVE skipChunks(_, _, _)
RECURSIVE skipIndef(_, _, _, _)
RECURSIVE skipCount(_, _, _, _, _, _)

\* k consecutive calls skip(o, depth), stopping at the first error
skipItems(o, k, depth) ==
    IF k = 0 THEN Res("nil", NoVal, o)
    ELSE With(skip(o, depth), LAMBDA r:
         IF r.err # "nil" THEN r ELSE skipItems(r.rest, k - 1, depth))

\* the loop over the chunks of an indefinite-length string of the given major
skipChunks(o, major, b) ==
    IF Len(o) < 1 THEN Res("ErrShortBytes", NoVal, b)
    ELSE IF o[1] = makeByte(majorTypeSimple, simpleBreak) THEN Res("nil", NoVal, Drop(o, 1))
    ELSE With(readUintCore(o, major), LAMBDA h:
         IF h.err # "nil" THEN Res(h.err, NoVal, b)
         ELSE IF LtBytes(U64(Len(h.rest)), h.val) THEN Res("ErrShortBytes", NoVal, b)
         ELSE skipChunks(Drop(h.rest, Nat64(h.val)), major, b))

\* the loop over an indefinite-length array (per = 1) or map (per = 2)
skipIndef(o, per, depth, b) ==
    IF Len(o) < 1 THEN Res("ErrShortBytes", NoVal, b)
    ELSE IF o[1] = makeByte(majorTypeSimple, simpleBreak) THEN Res("nil", NoVal, Drop(o, 1))
    ELSE With(skipItems(o, per, depth + 1), LAMBDA r:
         IF r.err # "nil" THEN Res(r.err, NoVal, b)
         ELSE skipIndef(r.rest, per, depth, b))

\* for i := uint64(0); i < sz; i++ over an array (per = 1) or map (per = 2)
skipCount(o, i, sz, per, depth, b) ==
    IF ~LtBytes(U64(i), sz) THEN Res("nil", NoVal, o)
    ELSE With(skipItems(o, per, depth + 1), LAMBDA r:
         IF r.err # "nil" THEN Res(r.err, NoVal, b)
         ELSE skipCount(r.rest, i + 1, sz, per, depth, b))

skip(b, depth) ==
    IF depth > recursionLimit THEN Res("ErrMaxDepthExceeded", NoVal, b)
    ELSE IF Len(b) < 1 THEN Res("ErrShortBytes", NoVal, b)
    ELSE LET major == getMajorType(b[1])
             addInfo == getAddInfo(b[1])
         IN
         IF major \in {majorTypeUint, majorTypeNegInt, majorTypeTag} THEN
             With(readUintCore(b, major), LAMBDA h:
             IF h.err # "nil" THEN Res(h.err, NoVal, b)
             ELSE IF major = majorTypeTag THEN skip(h.rest, depth + 1)
             ELSE Res("nil", NoVal, h.rest))
         ELSE IF major \in {majorTypeBytes, majorTypeText} THEN
             IF addInfo = addInfoIndefinite THEN skipChunks(Drop(b, 1), major, b)
             ELSE With(readUintCore(b, major), LAMBDA h:
                  IF h.err # "nil" THEN Res(h.err, NoVal, b)
                  ELSE IF LtBytes(U64(Len(h.rest)), h.val) THEN Res("ErrShortBytes", NoVal, b)
                  ELSE Res("nil", NoVal, Drop(h.rest, Nat64(h.val))))
         ELSE IF major \in {majorTypeArray, majorTypeMap} THEN
             LET per == IF major = majorTypeArray THEN 1 ELSE 2 IN
             IF addInfo = addInfoIndefinite THEN skipIndef(Drop(b, 1), per, depth, b)
             ELSE With(readUintCore(b, major), LAMBDA h:
                  IF h.err # "nil" THEN Res(h.err, NoVal, b)
                  ELSE skipCount(h.rest, 0, h.val, per, depth, b))
         ELSE \* majorTypeSimple
             IF addInfo \in {simpleFalse, simpleTrue, simpleNull, simpleUndefined}
             THEN Res("nil", NoVal, Drop(b, 1))
             ELSE IF addInfo = simpleFloat16 THEN
                 IF Len(b) < 3 THEN Res("ErrShortBytes", NoVal, b)
                 ELSE Res("nil", NoVal, Drop(b, 3))
             ELSE IF addInfo = simpleFloat32 THEN
                 IF Len(b) < 5 THEN Res("ErrShortBytes", NoVal, b)
                 ELSE Res("nil", NoVal, Drop(b, 5))
             ELSE IF addInfo = simpleFloat64 THEN
                 IF Len(b) < 9 THEN Res("ErrShortBytes", NoVal, b)
                 ELSE Res("nil", NoVal, Drop(b, 9))
             ELSE IF addInfo < 20 THEN Res("nil", NoVal, Drop(b, 1))
             ELSE Res("ErrUnsupportedType", NoVal, b)

Skip(b) == skip(b, 0)

----------------------------------------------------------------------------
(* helpers.go: the well-formedness check.                                  *)

RECURSIVE validateWellFormed(_, _)
RECURSIVE validateItems(_, _, _)
RECURSIVE validateBytesChunks(_, _)
RECURSIVE validateTextChunks(_, _)
RECURSIVE validateIndef(_, _, _, _)
RECURSIVE validateCount(_, _, _, _, _, _)

validateItems(o, k, depth) ==
    IF k = 0 THEN Res("nil", NoVal, o)
    ELSE With(validateWellFormed(o, depth), LAMBDA r:
         IF r.err # "nil" THEN r ELSE validateItems(r.rest, k - 1, depth))

validateBytesChunks(p, b) ==
    IF Len(p) < 1 THEN Res("ErrShortBytes", NoVal, b)
    ELSE IF p[1] = makeByte(majorTypeSimple, simpleBreak) THEN Res("nil", NoVal, Drop(p, 1))
    ELSE With(readUintCore(p, majorTypeBytes), LAMBDA h:
         IF h.err # "nil" THEN Res(h.err, NoVal, b)
         ELSE IF LtBytes(U64(Len(h.rest)), h.val) THEN Res("ErrShortBytes", NoVal, b)
         ELSE validateBytesChunks(Drop(h.rest, Nat64(h.val)), b))

validateTextChunks(p, b) ==
    IF Len(p) < 1 THEN Res("ErrShortBytes", NoVal, b)
    ELSE IF p[1] = makeByte(majorTypeSimple, simpleBreak) THEN Res("nil", NoVal, Drop(p, 1))
    ELSE With(ReadStringZC(p), LAMBDA c:
         IF c.err # "nil" THEN Res(c.err, NoVal, b)
         ELSE IF ~isUTF8Valid(c.val) THEN Res("ErrInvalidUTF8", NoVal, b)
         ELSE validateTextChunks(c.rest, b))

validateIndef(p, per, depth, b) ==
    IF Len(p) < 1 THEN Res("ErrShortBytes", NoVal, b)
    ELSE IF p[1] = makeByte(majorTypeSimple, simpleBreak) THEN Res("nil", NoVal, Drop(p, 1))
    ELSE With(validateItems(p, per, depth + 1), LAMBDA r:
         IF r.err # "nil" THEN Res(r.err, NoVal, b)
         ELSE validateIndef(r.rest, per, depth, b))

validateCount(p, i, sz, per, depth, b) ==
    IF ~LtBytes(U64(i), sz) THEN Res("nil", NoVal, p)
    ELSE With(validateItems(p, per, depth + 1), LAMBDA r:
         IF r.err # "nil" THEN Res(r.err, NoVal, b)
         ELSE validateCount(r.rest, i + 1, sz, per, depth, b))

validateWellFormed(b, depth) ==
    IF depth > recursionLimit THEN Res("ErrMaxDepthExceeded", NoVal, b)
    ELSE IF Len(b) < 1 THEN Res("ErrShortBytes", NoVal, b)
    ELSE LET major == getMajorType(b[1])
             add == getAddInfo(b[1])
         IN
         IF add \in {28, 29, 30} THEN Res("InvalidPrefixError", NoVal, b)
         ELSE IF major \in {majorTypeUint, majorTypeNegInt, majorTypeTag} THEN
             With(readUintCore(b, major), LAMBDA h:
             IF h.err # "nil" THEN Res(h.err, NoVal, b)
             ELSE IF major = majorTypeTag THEN validateWellFormed(h.rest, depth + 1)
             ELSE Res("nil", NoVal, h.rest))
         ELSE IF major = majorTypeBytes THEN
             IF add = addInfoIndefinite THEN validateBytesChunks(Drop(b, 1), b)
             ELSE With(readUintCore(b, majorTypeBytes), LAMBDA h:
                  IF h.err # "nil" THEN Res(h.err, NoVal, b)
                  ELSE IF LtBytes(U64(Len(h.rest)), h.val) THEN Res("ErrShortBytes", NoVal, b)
                  ELSE Res("nil", NoVal, Drop(h.rest, Nat64(h.val))))
         ELSE IF major = majorTypeText THEN
             IF add = addInfoIndefinite THEN validateTextChunks(Drop(b, 1), b)
             ELSE With(ReadStringZC(b), LAMBDA s:
                  IF s.err # "nil" THEN Res(s.err, NoVal, b)
                  ELSE IF ~isUTF8Valid(s.val) THEN Res("ErrInvalidUTF8", NoVal, b)
                  ELSE Res("nil", NoVal, s.rest))
         ELSE IF major \in {majorTypeArray, majorTypeMap} THEN
             LET per == IF major = majorTypeArray THEN 1 ELSE 2 IN
             IF add = addInfoIndefinite THEN validateIndef(Drop(b, 1), per, depth, b)
             ELSE With(readUintCore(b, major), LAMBDA h:
                  IF h.err # "nil" THEN Res(h.err, NoVal, b)
                  ELSE validateCount(h.rest, 0, h.val, per, depth, b))
         ELSE \* majorTypeSimple
             IF add \in {simpleFalse, simpleTrue, simpleNull, simpleUndefined}
             THEN Res("nil", NoVal, Drop(b, 1))
             ELSE IF add = simpleFloat16 THEN
                 IF Len(b) < 3 THEN Res("ErrShortBytes", NoVal, b)
                 ELSE Res("nil", NoVal, Drop(b, 3))
             ELSE IF add = simpleFloat32 THEN
                 IF Len(b) < 5 THEN Res("ErrShortBytes", NoVal, b)
                 ELSE Res("nil", NoVal, Drop(b, 5))
             ELSE IF add = simpleFloat64 THEN
                 IF Len(b) < 9 THEN Res("ErrShortBytes", NoVal, b)
                 ELSE Res("nil", NoVal, Drop(b, 9))
             ELSE IF add = addInfoUint8 THEN
                 IF Len(b) < 2 THEN Res("ErrShortBytes", NoVal, b)
                 ELSE Res("nil", NoVal, Drop(b, 2))
             ELSE IF add < 20 THEN Res("nil", NoVal, Drop(b, 1))
             ELSE Res("ErrUnsupportedType", NoVal, b)

ValidateWellFormedBytes(b) == validateWellFormed(b, 0)

----------------------------------------------------------------------------
(* Float conversions.  Go's float32(x) and float64(x) conversions are      *)
(* IEEE 754 round-to-nearest-even and exact widening.  A float64 is split  *)
(* as sign, 11-bit exponent, the top 23 mantissa bits and the low 29.      *)

F64(s, e, m23, r29) ==
    <<s * 128 + e \div 16, (e % 16) * 16 + m23 \div 524288, (m23 \div 2048) % 256,
      (m23 \div 8) % 256, (m23 % 8) * 32 + r29 \div 16777216, (r29 \div 65536) % 256,
      (r29 \div 256) % 256, r29 % 256>>
F64Sign(f) == f[1] \div 128
F64Exp(f) == (f[1] % 128) * 16 + f[2] \div 16
F64Mant23(f) == (f[2] % 16) * 524288 + f[3] * 2048 + f[4] * 8 + f[5] \div 32
F64Rest29(f) == (f[5] % 32) * 16777216 + f[6] * 65536 + f[7] * 256 + f[8]

IsNaN64(f) == F64Exp(f) = 2047 /\ (F64Mant23(f) # 0 \/ F64Rest29(f) # 0)
IsZero64(f) == F64Exp(f) = 0 /\ F64Mant23(f) = 0 /\ F64Rest29(f) = 0
\* the == of two float64
FloatEq64(a, b) == ~IsNaN64(a) /\ ~IsNaN64(b) /\ (a = b \/ (IsZero64(a) /\ IsZero64(b)))

\* position of the highest set bit of m, 0 < m < 2^23
HighBit23(m) == CHOOSE p \in 0..22 : m >= 2^p /\ m < 2^(p + 1)

\* float32(f) of a float64 f
Float32Of(f) ==
    LET s == F64Sign(f)
        e == F64Exp(f)
        m == F64Mant23(f)
        r == F64Rest29(f)
        e32 == e - 896
    IN  IF e = 2047 THEN
            IF m = 0 /\ r = 0 THEN F32(s, 255, 0)
            ELSE F32(s, 255, m + (IF m < 4194304 THEN 4194304 ELSE 0))
        ELSE IF e = 0 THEN F32(s, 0, 0)
        ELSE IF e32 >= 255 THEN F32(s, 255, 0)
        ELSE IF e32 >= 1 THEN
            LET up == r > 268435456 \/ (r = 268435456 /\ m % 2 = 1)
                q == e32 * 8388608 + m + (IF up THEN 1 ELSE 0)
            IN  F32(s, q \div 8388608, q % 8388608)
        ELSE LET sh == 1 - e32 IN
             IF sh >= 25 THEN F32(s, 0, 0)
             ELSE LET sig == 8388608 + m
                      q0 == sig \div 2^sh
                      rem == sig % 2^sh
                      half == 2^(sh - 1)
                      up == \/ rem > half
                            \/ rem = half /\ (r > 0 \/ q0 % 2 = 1)
                      q == q0 + (IF up THEN 1 ELSE 0)
                  IN  F32(s, q \div 8388608, q % 8388608)

\* float64(f) of a float32 f
Float64Of(f) ==
    LET s == F32Sign(f)
        e == F32Exp(f)
        m == F32Mant(f)
    IN  IF e = 255 THEN F64(s, 2047, m, 0)
        ELSE IF e = 0 THEN
            IF m = 0 THEN F64(s, 0, 0, 0)
            ELSE LET p == HighBit23(m) IN F64(s, p + 874, (m - 2^p) * 2^(23 - p), 0)
        ELSE F64(s, e + 896, m, 0)

\* the uint16 result as its 2 big-endian bytes
float32ToFloat16Bits(f) ==
    LET sign == F32Sign(f)
        exp == F32Exp(f)
        mant == F32Mant(f)
        e32 == exp - 127
        e16 == e32 + 15
        h == IF exp = 255 THEN
                 IF mant = 0 THEN 31744
                 ELSE LET h0 == 31744 + mant \div 8192 IN
                      IF h0 % 1024 = 0 THEN h0 + 1 ELSE h0
             ELSE IF exp = 0 THEN 0
             ELSE IF e16 >= 31 THEN 31744
             ELSE IF e16 <= 0 THEN
                 LET shift == 14 - e32 IN
                 IF shift > 24 THEN 0
                 ELSE LET mantissa == mant + 8388608
                          round == 2^(shift - 1)
                          v == mantissa + round - 1 + ((mantissa \div 2^shift) % 2)
                      IN  ((v \div 2^shift) % 65536) % 1024
             ELSE LET v == mant + 4096 - 1 + ((mant \div 8192) % 2)
                      frac == v \div 8192
                  IN  IF frac \div 1024 # 0 THEN
                          IF e16 + 1 >= 31 THEN 31744 ELSE (e16 + 1) * 1024
                      ELSE e16 * 1024 + (frac % 1024)
        w == sign * 32768 + h
    IN  <<w \div 256, w % 256>>

AppendFloat64(b, f) == b \o <<makeByte(majorTypeSimple, simpleFloat64)>> \o f
AppendFloat32(b, f) == b \o <<makeByte(majorTypeSimple, simpleFloat32)>> \o f
AppendFloat16(b, f) == b \o <<makeByte(majorTypeSimple, simpleFloat16)>> \o float32ToFloat16Bits(f)

AppendFloatCanonical(b, f0) ==
    LET f == IF IsZero64(f0) /\ F64Sign(f0) = 1 THEN F64(0, 0, 0, 0) ELSE f0
        f32 == Float32Of(f)
        f16 == float32ToFloat16Bits(f32)
    IN  IF IsNaN64(f) THEN AppendFloat16(b, f32)
        ELSE IF FloatEq64(Float64Of(float16BitsToFloat32(f16)), f) THEN AppendFloat16(b, f32)
        ELSE IF FloatEq64(Float64Of(f32), f) THEN AppendFloat32(b, f32)
        ELSE AppendFloat64(b, f)

----------------------------------------------------------------------------
(* The stateful Reader.  Each method is an operator of the four fields     *)
(* that returns [err, val, rest]: rest is what r.buf holds when the method *)
(* returns (the method assigns r.buf only on its success path).            *)

NonCanon(nc, e) == [nonCanon |-> nc, err |-> e]

isNonCanonicalLength(b, expectedMajor) ==
    IF Len(b) < 1 THEN NonCanon(FALSE, "ErrShortBytes")
    ELSE IF getMajorType(b[1]) # expectedMajor THEN NonCanon(FALSE, "InvalidPrefixError")
    ELSE LET add == getAddInfo(b[1]) IN
         IF add >= 28 /\ add <= 30 THEN NonCanon(FALSE, "InvalidAdditionalInfoError")
         ELSE IF add = addInfoIndefinite THEN NonCanon(FALSE, "nil")
         ELSE IF add <= 23 THEN NonCanon(FALSE, "nil")
         ELSE IF add = addInfoUint8 THEN
             IF Len(b) < 2 THEN NonCanon(FALSE, "ErrShortBytes")
             ELSE NonCanon(b[2] <= 23, "nil")
         ELSE IF add = addInfoUint16 THEN
             IF Len(b) < 3 THEN NonCanon(FALSE, "ErrShortBytes")
             ELSE NonCanon(LeqBytes(Pad8(SubSeq(b, 2, 3)), MaxUint8), "nil")
         ELSE IF add = addInfoUint32 THEN
             IF Len(b) < 5 THEN NonCanon(FALSE, "ErrShortBytes")
             ELSE NonCanon(LeqBytes(Pad8(SubSeq(b, 2, 5)), MaxUint16), "nil")
         ELSE IF add = addInfoUint64 THEN
             IF Len(b) < 9 THEN NonCanon(FALSE, "ErrShortBytes")
             ELSE NonCanon(LeqBytes(SubSeq(b, 2, 9), MaxUint32), "nil")
         ELSE NonCanon(FALSE, "ErrUnsupportedType")

isNonCanonicalArrayLength(b) == isNonCanonicalLength(b, majorTypeArray)
isNonCanonicalMapLength(b) == isNonCanonicalLength(b, majorTypeMap)
isNonCanonicalBytesLength(b) == isNonCanonicalLength(b, majorTypeBytes)
isNonCanonicalTextLength(b) == isNonCanonicalLength(b, majorTypeText)

\* Reader.ReadArrayHeader
ReaderReadArrayHeader(b, st, det, mc) ==
    IF Len(b) < 1 THEN Res("ErrShortBytes", Zero64, b)
    ELSE LET nc == IF st THEN isNonCanonicalArrayLength(b) ELSE NonCanon(FALSE, "nil") IN
         IF nc.err # "nil" THEN Res(nc.err, Zero64, b)
         ELSE IF nc.nonCanon THEN Res("ErrNonCanonicalLength", Zero64, b)
         ELSE With(ReadArrayHeaderBytes(b), LAMBDA h:
              IF h.err # "nil" THEN Res(h.err, Zero64, b)
              ELSE IF mc > 0 /\ LtBytes(U64(mc), h.val) THEN Res("ErrContainerTooLarge", Zero64, b)
              ELSE Res("nil", h.val, h.rest))

\* Reader.ReadArrayStart
ReaderReadArrayStart(b, st, det, mc) ==
    LET h == ReadArrayStartBytes(b)
        zero == [sz |-> Zero64, indefinite |-> FALSE]
    IN  IF h.err # "nil" THEN Res(h.err, zero, b)
        ELSE IF h.val.indefinite /\ det THEN Res("ErrIndefiniteForbidden", zero, b)
        ELSE Res("nil", h.val, h.rest)

\* Reader.ReadMapHeader reporting an oversized map as one of the limit's size
ReaderReadMapHeader_Clamp(b, st, det, mc) ==
    IF Len(b) < 1 THEN Res("ErrShortBytes", Zero64, b)
    ELSE With(ReadMapHeaderBytes(b), LAMBDA h:
         IF h.err # "nil" THEN Res(h.err, Zero64, b)
         ELSE IF mc > 0 /\ LtBytes(U64(mc), h.val) THEN Res("nil", U64(mc), h.rest)
         ELSE Res("nil", h.val, h.rest))

\* Reader.ReadMapHeader
ReaderReadMapHeader(b, st, det, mc) ==
    IF Len(b) < 1 THEN Res("ErrShortBytes", Zero64, b)
    ELSE LET nc == IF st THEN isNonCanonicalMapLength(b) ELSE NonCanon(FALSE, "nil") IN
         IF nc.err # "nil" THEN Res(nc.err, Zero64, b)
         ELSE IF nc.nonCanon THEN Res("ErrNonCanonicalLength", Zero64, b)
         ELSE With(ReadMapHeaderBytes(b), LAMBDA h:
              IF h.err # "nil" THEN Res(h.err, Zero64, b)
              ELSE IF mc > 0 /\ LtBytes(U64(mc), h.val) THEN Res("ErrContainerTooLarge", Zero64, b)
              ELSE Res("nil", h.val, h.rest))

\* Reader.ReadString
ReaderReadString(b, st, det, mc) ==
    IF Len(b) < 1 THEN Res("ErrShortBytes", <<>>, b)
    ELSE LET nc == IF st THEN isNonCanonicalTextLength(b) ELSE NonCanon(FALSE, "nil") IN
         IF nc.err # "nil" THEN Res(nc.err, <<>>, b)
         ELSE IF nc.nonCanon THEN Res("ErrNonCanonicalLength", <<>>, b)
         ELSE IF det /\ getMajorType(b[1]) = majorTypeText /\ getAddInfo(b[1]) = addInfoIndefinite
              THEN Res("ErrIndefiniteForbidden", <<>>, b)
         ELSE With(ReadStringBytes(b), LAMBDA s:
              IF s.err # "nil" THEN Res(s.err, <<>>, b)
              ELSE Res("nil", s.val, s.rest))

\* the strict-mode check shared by Reader.ReadInt and Reader.ReadInt64
strictIntCheck(b, st) ==
    IF st /\ getMajorType(b[1]) \in {majorTypeUint, majorTypeNegInt}
    THEN isNonCanonicalLength(b, getMajorType(b[1]))
    ELSE NonCanon(FALSE, "nil")

\* Reader.ReadInt
ReaderReadInt(b, st, det, mc) ==
    IF Len(b) < 1 THEN Res("ErrShortBytes", Zero64, b)
    ELSE With(strictIntCheck(b, st), LAMBDA nc:
         IF nc.err # "nil" THEN Res(nc.err, Zero64, b)
         ELSE IF nc.nonCanon THEN Res("ErrNonCanonicalLength", Zero64, b)
         ELSE With(ReadIntBytes(b), LAMBDA v:
              IF v.err # "nil" THEN Res(v.err, Zero64, b)
              ELSE Res("nil", v.val, v.rest)))

\* Reader.ReadBytes
ReaderReadBytes(b, st, det, mc) ==
    IF Len(b) < 1 THEN Res("ErrShortBytes", <<>>, b)
    ELSE LET nc == IF st THEN isNonCanonicalBytesLength(b) ELSE NonCanon(FALSE, "nil") IN
         IF nc.err # "nil" THEN Res(nc.err, <<>>, b)
         ELSE IF nc.nonCanon THEN Res("ErrNonCanonicalLength", <<>>, b)
         ELSE IF det /\ getMajorType(b[1]) = majorTypeBytes /\ getAddInfo(b[1]) = addInfoIndefinite
              THEN Res("ErrIndefiniteForbidden", <<>>, b)
         ELSE With(ReadBytesBytes(b), LAMBDA v:
              IF v.err # "nil" THEN Res(v.err, <<>>, b)
              ELSE Res("nil", v.val, v.rest))

\* Skip that does not store the rest of the buffer
ReaderSkip_KeepBuffer(b, st, det, mc) ==
    With(Skip(b), LAMBDA r:
    IF r.err # "nil" THEN Res(r.err, NoVal, b)
    ELSE Res("nil", NoVal, b))

\* Reader.Skip
ReaderSkip(b, st, det, mc) ==
    With(Skip(b), LAMBDA r:
    IF r.err # "nil" THEN Res(r.err, NoVal, b)
    ELSE Res("nil", NoVal, r.rest))

\* Reader.ReadBool
ReaderReadBool(b, st, det, mc) ==
    With(ReadBoolBytes(b), LAMBDA v:
    IF v.err # "nil" THEN Res(v.err, FALSE, b)
    ELSE Res("nil", v.val, v.rest))

\* Reader.ReadInt64
ReaderReadInt64(b, st, det, mc) ==
    IF Len(b) < 1 THEN Res("ErrShortBytes", Zero64, b)
    ELSE With(strictIntCheck(b, st), LAMBDA nc:
         IF nc.err # "nil" THEN Res(nc.err, Zero64, b)
         ELSE IF nc.nonCanon THEN Res("ErrNonCanonicalLength", Zero64, b)
         ELSE With(ReadInt64Bytes(b), LAMBDA v:
              IF v.err # "nil" THEN Res(v.err, Zero64, b)
              ELSE Res("nil", v.val, v.rest)))

\* the strict-mode check shared by Reader.ReadUint and Reader.ReadUint64
strictUintCheck(b, st) ==
    IF st /\ getMajorType(b[1]) = majorTypeUint
    THEN isNonCanonicalLength(b, majorTypeUint)
    ELSE NonCanon(FALSE, "nil")

\* Reader.ReadUint
ReaderReadUint(b, st, det, mc) ==
    IF Len(b) < 1 THEN Res("ErrShortBytes", Zero64, b)
    ELSE With(strictUintCheck(b, st), LAMBDA nc:
         IF nc.err # "nil" THEN Res(nc.err, Zero64, b)
         ELSE IF nc.nonCanon THEN Res("ErrNonCanonicalLength", Zero64, b)
         ELSE With(ReadUintBytes(b), LAMBDA v:
              IF v.err # "nil" THEN Res(v.err, Zero64, b)
              ELSE Res("nil", v.val, v.rest)))

\* Reader.ReadUint64
ReaderReadUint64(b, st, det, mc) ==
    IF Len(b) < 1 THEN Res("ErrShortBytes", Zero64, b)
    ELSE With(strictUintCheck(b, st), LAMBDA nc:
         IF nc.err # "nil" THEN Res(nc.err, Zero64, b)
         ELSE IF nc.nonCanon THEN Res("ErrNonCanonicalLength", Zero64, b)
         ELSE With(ReadUint64Bytes(b), LAMBDA v:
              IF v.err # "nil" THEN Res(v.err, Zero64, b)
              ELSE Res("nil", v.val, v.rest)))

\* Reader.ReadFloat32 storing the advanced buffer before the strict check
ReaderReadFloat32_StoreFirst(b, st, det, mc) ==
    LET orig == b
        v == ReadFloat32Bytes(b)
    IN  IF v.err # "nil" THEN Res(v.err, F32(0, 0, 0), b)
        ELSE LET canon == AppendFloatCanonical(<<>>, Float64Of(v.val))
                 encLen == Len(orig) - Len(v.rest)
             IN  IF st /\ (Len(canon) # encLen \/ Take(orig, encLen) # canon)
                 THEN Res("ErrNonCanonicalFloat", F32(0, 0, 0), v.rest)
                 ELSE Res("nil", v.val, v.rest)

\* Reader.ReadFloat32
ReaderReadFloat32(b, st, det, mc) ==
    LET orig == b
        v == ReadFloat32Bytes(b)
    IN  IF v.err # "nil" THEN Res(v.err, F32(0, 0, 0), b)
        ELSE LET canon == AppendFloatCanonical(<<>>, Float64Of(v.val))
                 encLen == Len(orig) - Len(v.rest)
             IN  IF st /\ (encLen < 0 \/ encLen > Len(orig)) THEN Res("ErrShortBytes", F32(0, 0, 0), b)
                 ELSE IF st /\ (Len(canon) # encLen \/ Take(orig, encLen) # canon)
                      THEN Res("ErrNonCanonicalFloat", F32(0, 0, 0), b)
                 ELSE Res("nil", v.val, v.rest)

\* Reader.ReadFloat64
ReaderReadFloat64(b, st, det, mc) ==
    LET orig == b
        v == ReadFloat64Bytes(b)
    IN  IF v.err # "nil" THEN Res(v.err, Zero64, b)
        ELSE LET canon == AppendFloatCanonical(<<>>, v.val)
                 encLen == Len(orig) - Len(v.rest)
             IN  IF st /\ (encLen < 0 \/ encLen > Len(orig)) THEN Res("ErrShortBytes", Zero64, b)
                 ELSE IF st /\ (Len(canon) # encLen \/ Take(orig, encLen) # canon)
                      THEN Res("ErrNonCanonicalFloat", Zero64, b)
                 ELSE Res("nil", v.val, v.rest)

----------------------------------------------------------------------------
(* Inputs.  A buffer is a header (an initial byte of any major type with   *)
(* its argument in one of the forms below) followed by a run of payload    *)
(* bytes.  The forms are <<additional info, following bytes>>: direct      *)
(* values, each wider form with a value that needs it and with a value     *)
(* that does not, truncated forms, a reserved value and the indefinite     *)
(* marker.                                                                 *)

ArgForms ==
    { <<0, <<>>>>, <<1, <<>>>>, <<2, <<>>>>, <<3, <<>>>>,
      <<20, <<>>>>, <<21, <<>>>>, <<22, <<>>>>, <<23, <<>>>>,
      <<24, <<>>>>, <<24, <<2>>>>, <<24, <<24>>>>,
      <<25, <<0, 2>>>>, <<25, <<1, 0>>>>,
      <<26, <<0, 0, 0, 2>>>>, <<26, <<0, 1, 0, 0>>>>,
      <<27, <<0, 0, 0, 0, 0, 0, 0, 2>>>>, <<27, <<0, 0, 0, 1, 0, 0, 0, 0>>>>,
      <<27, <<128, 0, 0, 0, 0, 0, 0, 0>>>>,
      <<27, <<127, 255, 255, 255, 255, 255, 255, 255>>>>,
      <<28, <<>>>>, <<31, <<>>>> }

\* floats in and out of their shortest form: 1.0 as float32 and as float64,
\* 100000.0 as float32, 1/3 as float64
FloatHeads ==
    { <<250, 63, 128, 0, 0>>, <<250, 71, 195, 80, 0>>,
      <<251, 63, 240, 0, 0, 0, 0, 0, 0>>, <<251, 63, 213, 85, 85, 85, 85, 85, 85>> }

Heads == { <<makeByte(m, f[1])>> \o f[2] : m \in 0..7, f \in ArgForms } \cup FloatHeads

\* 0x01 (the integer 1, a payload byte), 0xff (break, not UTF-8)
PayloadBytes == {1, 255}
Tails(n) == UNION { [1..k -> PayloadBytes] : k \in 0..n }

ReaderBufs == { h \o t : h \in Heads, t \in Tails(MaxTail) } \cup {<<>>}

IdleRes == Res("nil", NoVal, <<>>)
CodecIdle == val = NoVal /\ wire = <<>> /\ fn = "none" /\ res = IdleRes
\* an empty pool, no buffer made, no call
PoolIdle == bbPool = {} /\ buffers = <<>> /\ calls = <<>>

----------------------------------------------------------------------------
(* The Reader as a state machine.                                          *)

\* NewReaderBytes
Init ==
    /\ buf \in ReaderBufs
    /\ strict = FALSE
    /\ deterministic = FALSE
    /\ maxContainer = 0
    /\ lastOp = "NewReaderBytes"
    /\ lastErr = "nil"
    /\ lastVal = NoVal
    /\ CodecIdle
    /\ PoolIdle
    /\ generatedStructs = {}

SetStrictDecode ==
    \E s \in BOOLEAN :
        /\ strict' = s
        /\ lastOp' = "SetStrictDecode" /\ lastErr' = "nil" /\ lastVal' = NoVal
        /\ UNCHANGED <<buf, deterministic, maxContainer, codecVars, poolVars, generatedStructs>>

SetDeterministicDecode ==
    \E d \in BOOLEAN :
        /\ deterministic' = d
        /\ lastOp' = "SetDeterministicDecode" /\ lastErr' = "nil" /\ lastVal' = NoVal
        /\ UNCHANGED <<buf, strict, maxContainer, codecVars, poolVars, generatedStructs>>

SetMaxContainerLen ==
    \E max \in 0..MaxLimit :
        /\ maxContainer' = max
        /\ lastOp' = "SetMaxContainerLen" /\ lastErr' = "nil" /\ lastVal' = NoVal
        /\ UNCHANGED <<buf, strict, deterministic, codecVars, poolVars, generatedStructs>>

\* a Reader method returns r: the caller sees r.err and r.val, r.buf is r.rest
Call(op, r) ==
    /\ lastOp' = op
    /\ lastErr' = r.err
    /\ lastVal' = r.val
    /\ buf' = r.rest
    /\ UNCHANGED <<strict, deterministic, maxContainer, codecVars, poolVars, generatedStructs>>

ReadArrayHeader == Call("ReadArrayHeader", ReaderReadArrayHeader(buf, strict, deterministic, maxContainer))
ReadArrayStart == Call("ReadArrayStart", ReaderReadArrayStart(buf, strict, deterministic, maxContainer))
ReadMapHeader == Call("ReadMapHeader", ReaderReadMapHeader(buf, strict, deterministic, maxContainer))
ReadString == Call("ReadString", ReaderReadString(buf, strict, deterministic, maxContainer))
ReadInt == Call("ReadInt", ReaderReadInt(buf, strict, deterministic, maxContainer))
ReadBytes == Call("ReadBytes", ReaderReadBytes(buf, strict, deterministic, maxContainer))
ReadSkip == Call("Skip", ReaderSkip(buf, strict, deterministic, maxContainer))
ReadBool == Call("ReadBool", ReaderReadBool(buf, strict, deterministic, maxContainer))
ReadInt64 == Call("ReadInt64", ReaderReadInt64(buf, strict, deterministic, maxContainer))
ReadUint == Call("ReadUint", ReaderReadUint(buf, strict, deterministic, maxContainer))
ReadUint64 == Call("ReadUint64", ReaderReadUint64(buf, strict, deterministic, maxContainer))
ReadFloat32 == Call("ReadFloat32", ReaderReadFloat32(buf, strict, deterministic, maxContainer))
ReadFloat64 == Call("ReadFloat64", ReaderReadFloat64(buf, strict, deterministic, maxContainer))

Next ==
    \/ SetStrictDecode
    \/ SetDeterministicDecode
    \/ SetMaxContainerLen
    \/ ReadArrayHeader
    \/ ReadArrayStart
    \/ ReadMapHeader
    \/ ReadString
    \/ ReadInt
    \/ ReadBytes
    \/ ReadSkip
    \/ ReadBool
    \/ ReadInt64
    \/ ReadUint
    \/ ReadUint64
    \/ ReadFloat32
    \/ ReadFloat64

Spec == Init /\ [][Next]_vars

\* the methods of Reader that read an item
ReadOps ==
    { "ReadArrayHeader", "ReadArrayStart", "ReadMapHeader", "ReadString",
      "ReadInt", "ReadBytes", "Skip", "ReadBool", "ReadInt64", "ReadUint",
      "ReadUint64", "ReadFloat32", "ReadFloat64" }

\* the method named op applied by a Reader over b with the given settings
ReaderOp(op, b, st, det, mc) ==
    CASE op = "ReadArrayHeader" -> ReaderReadArrayHeader(b, st, det, mc)
      [] op = "ReadArrayStart" -> ReaderReadArrayStart(b, st, det, mc)
      [] op = "ReadMapHeader" -> ReaderReadMapHeader(b, st, det, mc)
      [] op = "ReadString" -> ReaderReadString(b, st, det, mc)
      [] op = "ReadInt" -> ReaderReadInt(b, st, det, mc)
      [] op = "ReadBytes" -> ReaderReadBytes(b, st, det, mc)
      [] op = "Skip" -> ReaderSkip(b, st, det, mc)
      [] op = "ReadBool" -> ReaderReadBool(b, st, det, mc)
      [] op = "ReadInt64" -> ReaderReadInt64(b, st, det, mc)
      [] op = "ReadUint" -> ReaderReadUint(b, st, det, mc)
      [] op = "ReadUint64" -> ReaderReadUint64(b, st, det, mc)
      [] op = "ReadFloat32" -> ReaderReadFloat32(b, st, det, mc)
      [] op = "ReadFloat64" -> ReaderReadFloat64(b, st, det, mc)

----------------------------------------------------------------------------
(* Properties of the Reader.                                               *)

Settings == <<strict, deterministic, maxContainer>>

\* C3: a Reader method that returns an error leaves the remaining buffer
\* and the three settings exactly as they were before the call, under
\* every combination of the settings.
C3_ErrorLeavesReaderUnchanged ==
    [][(lastOp' \in ReadOps /\ lastErr' # "nil") =>
          (buf' = buf /\ Settings' = Settings)]_vars

\* a strict, deterministic, limited Reader whose ReadFloat32 has just
\* rejected a float that is not in its shortest form
C3_Witness ==
    /\ lastOp = "ReadFloat32" /\ lastErr = "ErrNonCanonicalFloat"
    /\ strict /\ deterministic /\ maxContainer > 0
    /\ Len(buf) > 5

\* C7: a Reader method that succeeds under some combination of strict
\* mode, deterministic mode and container limit also succeeds on the same
\* buffer with all three disabled, with the same value and the same
\* remaining buffer.
C7_ModesOnlyTighten ==
    [][(lastOp' \in ReadOps /\ lastErr' = "nil") =>
          LET plain == ReaderOp(lastOp', buf, FALSE, FALSE, 0) IN
          /\ plain.err = "nil"
          /\ plain.val = lastVal'
          /\ plain.rest = buf']_vars

\* a strict, deterministic, limited Reader that has just read the header
\* of a map within the limit
C7_Witness ==
    /\ lastOp = "ReadMapHeader" /\ lastErr = "nil"
    /\ strict /\ deterministic /\ maxContainer > 0
    /\ lastVal # Zero64

\* b starts with an integer, byte string, text string, array or map header
\* whose argument is written in more bytes than its value needs
WiderThanShortest(b) ==
    /\ Len(b) >= 1
    /\ getMajorType(b[1]) \in {majorTypeUint, majorTypeNegInt, majorTypeBytes,
                               majorTypeText, majorTypeArray, majorTypeMap}
    /\ LET add == getAddInfo(b[1]) IN
       \/ add = addInfoUint8 /\ Len(b) >= 2 /\ b[2] <= 23
       \/ add = addInfoUint16 /\ Len(b) >= 3 /\ b[2] = 0
       \/ add = addInfoUint32 /\ Len(b) >= 5 /\ b[2] = 0 /\ b[3] = 0
       \/ add = addInfoUint64 /\ Len(b) >= 9 /\ \A i \in 2..5 : b[i] = 0

\* b starts with an indefinite-length byte string, text string, array or map
StartsIndefinite(b) ==
    /\ Len(b) >= 1
    /\ getMajorType(b[1]) \in {majorTypeBytes, majorTypeText, majorTypeArray, majorTypeMap}
    /\ getAddInfo(b[1]) = addInfoIndefinite

\* b starts with the header of an array or map that declares more than
\* limit elements (pairs, for a map)
DeclaresMoreThan(b, limit) ==
    /\ Len(b) >= 1
    /\ getMajorType(b[1]) \in {majorTypeArray, majorTypeMap}
    /\ LET h == IF getMajorType(b[1]) = majorTypeArray
                THEN ReadArrayHeaderBytes(b) ELSE ReadMapHeaderBytes(b)
       IN  h.err = "nil" /\ LtBytes(U64(limit), h.val)

\* C4: with strict mode on, no Reader method succeeds on, or advances the
\* cursor past, an array, map, byte string, text string or integer whose
\* length or argument is encoded in a wider form than the shortest one.
C4_StrictRejectsWiderHeaders ==
    [][(lastOp' \in ReadOps /\ strict /\ WiderThanShortest(buf)) =>
          (lastErr' # "nil" /\ buf' = buf)]_vars

\* C5: with deterministic mode on, no Reader method consumes an
\* indefinite-length array, map, byte string or text string: the method
\* returns an error and the cursor stays where it was.
C5_DeterministicRejectsIndefinite ==
    [][(lastOp' \in ReadOps /\ deterministic /\ StartsIndefinite(buf)) =>
          (lastErr' # "nil" /\ buf' = buf)]_vars

\* C6: with the container limit set to L > 0, no Reader method reports or
\* passes over an array or map whose declared size exceeds L: the method
\* returns an error and the cursor stays where it was.
C6_LimitRejectsLargeContainers ==
    [][(lastOp' \in ReadOps /\ maxContainer > 0 /\ DeclaresMoreThan(buf, maxContainer)) =>
          (lastErr' # "nil" /\ buf' = buf)]_vars

----------------------------------------------------------------------------
(* read_bytes.go: appenders.  64-bit arguments are 8 big-endian bytes.     *)

\* appendUintCore with the one-byte form kept for values up to 254 only
appendUintCore_Below255(b, majorType, u) ==
    IF LeqBytes(u, U64(addInfoDirect)) THEN b \o <<makeByte(majorType, u[8])>>
    ELSE IF LtBytes(u, MaxUint8) THEN b \o <<makeByte(majorType, addInfoUint8), u[8]>>
    ELSE IF LeqBytes(u, MaxUint16) THEN b \o <<makeByte(majorType, addInfoUint16), u[7], u[8]>>
    ELSE IF LeqBytes(u, MaxUint32) THEN b \o <<makeByte(majorType, addInfoUint32)>> \o SubSeq(u, 5, 8)
    ELSE b \o <<makeByte(majorType, addInfoUint64)>> \o u

appendUintCore(b, majorType, u) ==
    IF LeqBytes(u, U64(addInfoDirect)) THEN b \o <<makeByte(majorType, u[8])>>
    ELSE IF LeqBytes(u, MaxUint8) THEN b \o <<makeByte(majorType, addInfoUint8), u[8]>>
    ELSE IF LeqBytes(u, MaxUint16) THEN b \o <<makeByte(majorType, addInfoUint16), u[7], u[8]>>
    ELSE IF LeqBytes(u, MaxUint32) THEN b \o <<makeByte(majorType, addInfoUint32)>> \o SubSeq(u, 5, 8)
    ELSE b \o <<makeByte(majorType, addInfoUint64)>> \o u

\* AppendInt64 encoding a negative i with the argument -i
AppendInt64_NegArgument(b, i) ==
    IF ~IsNeg64(i) /\ LeqBytes(i, U64(addInfoDirect)) THEN b \o <<makeByte(majorTypeUint, i[8])>>
    ELSE IF IsNeg64(i) THEN
        LET neg == AddCarry(Not64(i), 1) IN
        IF ~IsNeg64(neg) /\ LeqBytes(neg, U64(addInfoDirect))
        THEN b \o <<makeByte(majorTypeNegInt, neg[8])>>
        ELSE appendUintCore(b, majorTypeNegInt, neg)
    ELSE appendUintCore(b, majorTypeUint, i)

AppendInt64(b, i) ==
    IF ~IsNeg64(i) /\ LeqBytes(i, U64(addInfoDirect)) THEN b \o <<makeByte(majorTypeUint, i[8])>>
    ELSE IF IsNeg64(i) THEN
        LET neg == Not64(i) IN
        IF ~IsNeg64(neg) /\ LeqBytes(neg, U64(addInfoDirect))
        THEN b \o <<makeByte(majorTypeNegInt, neg[8])>>
        ELSE appendUintCore(b, majorTypeNegInt, neg)
    ELSE appendUintCore(b, majorTypeUint, i)

\* the conversions int64(i) and uint64(u) extend the value; arguments are
\* given already extended to 64 bits
AppendInt(b, i) == AppendInt64(b, i)
AppendInt8(b, i) == AppendInt64(b, i)
AppendInt16(b, i) == AppendInt64(b, i)
AppendInt32(b, i) == AppendInt64(b, i)
AppendUint64(b, u) == appendUintCore(b, majorTypeUint, u)
AppendUint(b, u) == AppendUint64(b, u)
AppendUint8(b, u) == appendUintCore(b, majorTypeUint, u)
AppendUint16(b, u) == appendUintCore(b, majorTypeUint, u)
AppendUint32(b, u) == appendUintCore(b, majorTypeUint, u)

\* the header AppendBytes and AppendString write for a payload of sz bytes
lengthHeader(majorType, sz) ==
    LET u == U64(sz)
        h == IF LeqBytes(u, U64(addInfoDirect)) THEN 1
             ELSE IF LeqBytes(u, MaxUint8) THEN 2
             ELSE IF LeqBytes(u, MaxUint16) THEN 3
             ELSE IF LeqBytes(u, MaxUint32) THEN 5
             ELSE 9
    IN  CASE h = 1 -> <<makeByte(majorType, u[8])>>
          [] h = 2 -> <<makeByte(majorType, addInfoUint8), u[8]>>
          [] h = 3 -> <<makeByte(majorType, addInfoUint16), u[7], u[8]>>
          [] h = 5 -> <<makeByte(majorType, addInfoUint32)>> \o SubSeq(u, 5, 8)
          [] h = 9 -> <<makeByte(majorType, addInfoUint64)>> \o u

AppendBytes(b, data) == b \o lengthHeader(majorTypeBytes, Len(data)) \o data
AppendString(b, s) == b \o lengthHeader(majorTypeText, Len(s)) \o s

AppendBool(b, v) ==
    IF v THEN b \o <<makeByte(majorTypeSimple, simpleTrue)>>
    ELSE b \o <<makeByte(majorTypeSimple, simpleFalse)>>

----------------------------------------------------------------------------
(* Values to encode.                                                       *)

\* bytes on both sides of each header-width threshold and of the sign bit
IntBytes == {0, 1, 23, 24, 127, 128, 231, 232, 255}

\* 64-bit values: k leading bytes 0x00 or 0xff, one byte of IntBytes, the
\* rest filled with one byte
IntValues ==
    { Rep(p, k) \o <<a>> \o Rep(f, 7 - k) :
        p \in {0, 255}, a \in IntBytes, f \in {0, 1, 255}, k \in 0..7 }

\* NUL, "a", the two bytes of U+00E9, and a byte no UTF-8 text contains
StringBytes == {0, 97, 195, 169, 255}

\* byte strings of up to MaxStrLen bytes and, at the header-width
\* thresholds, runs of "a"
ByteStrings ==
    UNION { [1..k -> StringBytes] : k \in 0..MaxStrLen }
        \cup { Rep(97, n) : n \in {23, 24, 255, 256} }

TextStrings == { s \in ByteStrings : isUTF8Valid(s) }

HeaderArgs == [major : 0..7, u : IntValues]

ReaderIdle ==
    /\ buf = <<>> /\ strict = FALSE /\ deterministic = FALSE /\ maxContainer = 0
    /\ lastOp = "none" /\ lastErr = "nil" /\ lastVal = NoVal

----------------------------------------------------------------------------
(* Encoding a value into an empty buffer and decoding the result.          *)

InitCodec ==
    /\ \/ fn = "integer" /\ val \in IntValues
       \/ fn = "bool" /\ val \in BOOLEAN
       \/ fn = "bytes" /\ val \in ByteStrings
       \/ fn = "string" /\ val \in TextStrings
       \/ fn = "header" /\ val \in HeaderArgs
    /\ wire = <<>>
    /\ res = IdleRes
    /\ ReaderIdle
    /\ PoolIdle
    /\ generatedStructs = {}

\* an appender applied to the value drawn, on an empty buffer
Encode(kind, name, w) ==
    /\ fn = kind
    /\ wire' = w
    /\ fn' = name
    /\ UNCHANGED <<val, res, readerVars, poolVars, generatedStructs>>

\* a reader applied to what the appender "from" wrote
Decode(from, name, r) ==
    /\ fn = from
    /\ res' = r
    /\ fn' = name
    /\ UNCHANGED <<val, wire, readerVars, poolVars, generatedStructs>>

NextCodec ==
    \/ Encode("header", "appendUintCore", appendUintCore(<<>>, val.major, val.u))
    \/ Encode("integer", "AppendInt64", AppendInt64(<<>>, val))
    \/ Encode("integer", "AppendInt", AppendInt(<<>>, val))
    \/ fn = "integer" /\ FitsInt(val, 32) /\ Encode("integer", "AppendInt32", AppendInt32(<<>>, val))
    \/ fn = "integer" /\ FitsInt(val, 16) /\ Encode("integer", "AppendInt16", AppendInt16(<<>>, val))
    \/ fn = "integer" /\ FitsInt(val, 8) /\ Encode("integer", "AppendInt8", AppendInt8(<<>>, val))
    \/ Encode("integer", "AppendUint64", AppendUint64(<<>>, val))
    \/ Encode("integer", "AppendUint", AppendUint(<<>>, val))
    \/ fn = "integer" /\ FitsUint(val, 32) /\ Encode("integer", "AppendUint32", AppendUint32(<<>>, val))
    \/ fn = "integer" /\ FitsUint(val, 16) /\ Encode("integer", "AppendUint16", AppendUint16(<<>>, val))
    \/ fn = "integer" /\ FitsUint(val, 8) /\ Encode("integer", "AppendUint8", AppendUint8(<<>>, val))
    \/ Encode("bool", "AppendBool", AppendBool(<<>>, val))
    \/ Encode("bytes", "AppendBytes", AppendBytes(<<>>, val))
    \/ Encode("string", "AppendString", AppendString(<<>>, val))
    \/ Decode("AppendInt64", "ReadInt64Bytes", ReadInt64Bytes(wire))
    \/ Decode("AppendInt", "ReadIntBytes", ReadIntBytes(wire))
    \/ Decode("AppendInt32", "ReadInt32Bytes", ReadIntNBytes(wire, 32))
    \/ Decode("AppendInt16", "ReadInt16Bytes", ReadIntNBytes(wire, 16))
    \/ Decode("AppendInt8", "ReadInt8Bytes", ReadIntNBytes(wire, 8))
    \/ Decode("AppendUint64", "ReadUint64Bytes", ReadUint64Bytes(wire))
    \/ Decode("AppendUint", "ReadUintBytes", ReadUintBytes(wire))
    \/ Decode("AppendUint32", "ReadUint32Bytes", ReadUintNBytes(wire, 32))
    \/ Decode("AppendUint16", "ReadUint16Bytes", ReadUintNBytes(wire, 16))
    \/ Decode("AppendUint8", "ReadUint8Bytes", ReadUintNBytes(wire, 8))
    \/ Decode("AppendBool", "ReadBoolBytes", ReadBoolBytes(wire))
    \/ Decode("AppendBytes", "ReadBytesBytes", ReadBytesBytes(wire))
    \/ Decode("AppendString", "ReadStringBytes", ReadStringBytes(wire))

SpecCodec == InitCodec /\ [][NextCodec]_vars

ReadFns ==
    { "ReadInt64Bytes", "ReadIntBytes", "ReadInt32Bytes", "ReadInt16Bytes",
      "ReadInt8Bytes", "ReadUint64Bytes", "ReadUintBytes", "ReadUint32Bytes",
      "ReadUint16Bytes", "ReadUint8Bytes", "ReadBoolBytes", "ReadBytesBytes",
      "ReadStringBytes" }

\* C1: appending a signed integer, unsigned integer, boolean, byte string
\* or valid UTF-8 text to an empty buffer with its type's appender and
\* reading the result with the same type's reader returns exactly that
\* value and an empty remainder.
C1_RoundTrip ==
    fn \in ReadFns => (res.err = "nil" /\ res.val = val /\ res.rest = <<>>)

\* a negative int64 that needs a 9-byte encoding has been read back, and so
\* has text with a two-byte character
C1_Witness ==
    \/ fn = "ReadInt64Bytes" /\ IsNeg64(val) /\ Len(wire) = 9 /\ res.val = val
    \/ fn = "ReadStringBytes" /\ val = <<195, 169>> /\ res.val = val

\* the number of bytes of the shortest header for the argument u
HeaderWidth(u) ==
    IF (\A i \in 1..7 : u[i] = 0) /\ u[8] <= 23 THEN 1
    ELSE IF \A i \in 1..7 : u[i] = 0 THEN 2
    ELSE IF \A i \in 1..6 : u[i] = 0 THEN 3
    ELSE IF \A i \in 1..4 : u[i] = 0 THEN 5
    ELSE 9

\* the header of HeaderWidth(u) bytes: the major type in the top three bits
\* of the first byte, then the argument, big-endian
ShortestHeader(major, u) ==
    With(HeaderWidth(u), LAMBDA w:
    IF w = 1 THEN <<major * 32 + u[8]>>
    ELSE <<major * 32 + (CASE w = 2 -> 24 [] w = 3 -> 25 [] w = 5 -> 26 [] w = 9 -> 27)>>
             \o SubSeq(u, 10 - w, 8))

\* C2: appendUintCore writes, for every major type and argument u, a
\* header of 1 byte when u <= 23, 2 when u <= 255, 3 when u <= 65535, 5
\* when u <= 2^32-1 and 9 otherwise; AppendInt64 writes that header with
\* major 0 for v >= 0 and with major 1 and argument -1 - v for v < 0, so
\* 0 -> 00, 23 -> 17, 24 -> 1818, 255 -> 18ff, 256 -> 190100, -1 -> 20,
\* -24 -> 37, -25 -> 3818.
C2_CanonicalWidths ==
    /\ fn = "appendUintCore" =>
          /\ Len(wire) = HeaderWidth(val.u)
          /\ wire = ShortestHeader(val.major, val.u)
    /\ fn = "AppendInt64" =>
          /\ wire = IF IsNeg64(val) THEN ShortestHeader(1, Not64(val))
                    ELSE ShortestHeader(0, val)
          /\ (val = U64(0) => wire = <<0>>)
          /\ (val = U64(23) => wire = <<23>>)
          /\ (val = U64(24) => wire = <<24, 24>>)
          /\ (val = U64(255) => wire = <<24, 255>>)
          /\ (val = U64(256) => wire = <<25, 1, 0>>)
          /\ (val = Not64(U64(0)) => wire = <<32>>)
          /\ (val = Not64(U64(23)) => wire = <<55>>)
          /\ (val = Not64(U64(24)) => wire = <<56, 24>>)

\* a map header for 2^32 has been written in nine bytes, or -25 has been
\* encoded
C2_Witness ==
    \/ /\ fn = "appendUintCore" /\ val.major = majorTypeMap
       /\ val.u = <<0, 0, 0, 1, 0, 0, 0, 0>> /\ Len(wire) = 9
    \/ fn = "AppendInt64" /\ val = Not64(U64(24)) /\ wire = <<56, 24>>

----------------------------------------------------------------------------
(* read_bytes.go: times, tags and the tag-specific readers.                *)

\* the seconds (and nanoseconds) are kept as the number read from the wire
ReadTimeBytes(b) ==
    IF Len(b) < 2 THEN Res("ErrShortBytes", NoVal, b)
    ELSE IF getMajorType(b[1]) # majorTypeTag THEN Res("InvalidPrefixError", NoVal, b)
    ELSE With(readUintCore(b, majorTypeTag), LAMBDA h:
         IF h.err # "nil" THEN Res(h.err, NoVal, b)
         ELSE IF h.val # U64(tagEpochDateTime) THEN Res("errorString", NoVal, b)
         ELSE LET o == h.rest IN
              IF Len(o) < 1 THEN Res("ErrShortBytes", NoVal, b)
              ELSE IF getMajorType(o[1]) \in {majorTypeUint, majorTypeNegInt} THEN
                  With(ReadInt64Bytes(o), LAMBDA r:
                  IF r.err # "nil" THEN Res(r.err, NoVal, b)
                  ELSE Res("nil", [unix |-> r.val], r.rest))
              ELSE IF getMajorType(o[1]) = majorTypeSimple THEN
                  LET add == getAddInfo(o[1])
                      r == CASE add = simpleFloat64 -> ReadFloat64Bytes(o)
                             [] add = simpleFloat32 -> ReadFloat32Bytes(o)
                             [] add = simpleFloat16 -> ReadFloat16Bytes(o)
                             [] OTHER -> Res("ErrUnsupportedType", NoVal, o)
                  IN  IF r.err # "nil" THEN Res(r.err, NoVal, b)
                      ELSE Res("nil", [unix |-> r.val], r.rest)
              ELSE Res("ErrUnsupportedType", NoVal, b))

ReadTagBytes(b) ==
    With(readUintCore(b, majorTypeTag), LAMBDA h:
    IF h.err # "nil" THEN Res(h.err, Zero64, b)
    ELSE Res("nil", h.val, h.rest))

IsDigit(c) == c >= 48 /\ c <= 57
\* the number written by the two digits s[i], s[i+1]
TwoDigits(s, i) == (s[i] - 48) * 10 + (s[i + 1] - 48)

\* time.Parse(time.RFC3339Nano, s) succeeds.  Modelled for texts of up to
\* 20 bytes: nothing shorter parses, and a text of 20 bytes parses when it
\* is a date and time in UTC, "2006-01-02T15:04:05Z".
rfc3339Parses(s) ==
    /\ Len(s) = 20
    /\ \A i \in {1, 2, 3, 4, 6, 7, 9, 10, 12, 13, 15, 16, 18, 19} : IsDigit(s[i])
    /\ s[5] = 45 /\ s[8] = 45 /\ s[11] = 84 /\ s[14] = 58 /\ s[17] = 58 /\ s[20] = 90
    /\ LET year == TwoDigits(s, 1) * 100 + TwoDigits(s, 3)
           month == TwoDigits(s, 6)
           day == TwoDigits(s, 9)
           leap == year % 4 = 0 /\ (year % 100 # 0 \/ year % 400 = 0)
           daysIn == IF month = 2 THEN (IF leap THEN 29 ELSE 28)
                     ELSE IF month \in {4, 6, 9, 11} THEN 30 ELSE 31
       IN  /\ month >= 1 /\ month <= 12
           /\ day >= 1 /\ day <= daysIn
           /\ TwoDigits(s, 12) < 24 /\ TwoDigits(s, 15) < 60 /\ TwoDigits(s, 18) < 60

\* the time is kept as the text it was parsed from
ReadRFC3339TimeBytes(b) ==
    With(ReadTagBytes(b), LAMBDA t:
    IF t.err # "nil" THEN Res(t.err, NoVal, b)
    ELSE IF t.val # U64(tagDateTimeString) THEN Res("InvalidPrefixError", NoVal, b)
    ELSE With(ReadStringBytes(t.rest), LAMBDA s:
         IF s.err # "nil" THEN Res(s.err, NoVal, b)
         ELSE IF ~rfc3339Parses(s.val) THEN Res("ParseError", NoVal, b)
         ELSE Res("nil", [rfc3339 |-> s.val], s.rest)))

\* the shape shared by the text readers of tags 32..36:
\*     tag, o, err := ReadTagBytes(b); ...; return ReadStringBytes(o)
readTaggedString(b, want) ==
    With(ReadTagBytes(b), LAMBDA t:
    IF t.err # "nil" THEN Res(t.err, <<>>, b)
    ELSE IF t.val # U64(want) THEN Res("InvalidPrefixError", <<>>, b)
    ELSE ReadStringBytes(t.rest))

\* the shape shared by the byte-string readers of tags 21..24:
\*     tag, o, err := ReadTagBytes(b); ...; return ReadBytesBytes(o, nil)
readTaggedBytes(b, want) ==
    With(ReadTagBytes(b), LAMBDA t:
    IF t.err # "nil" THEN Res(t.err, <<>>, b)
    ELSE IF t.val # U64(want) THEN Res("InvalidPrefixError", <<>>, b)
    ELSE ReadBytesBytes(t.rest))

ReadBase64URLStringBytes(b) == readTaggedString(b, tagBase64URLString)
ReadBase64StringBytes(b) == readTaggedString(b, tagBase64String)
ReadURIStringBytes(b) == readTaggedString(b, tagURI)
ReadRegexpStringBytes(b) == readTaggedString(b, tagRegexp)
ReadMIMEStringBytes(b) == readTaggedString(b, tagMIME)
ReadEmbeddedCBORBytes(b) == readTaggedBytes(b, tagCBOR)
ReadBase64URLBytes(b) == readTaggedBytes(b, tagBase64URL)
ReadBase64Bytes(b) == readTaggedBytes(b, tagBase64)
ReadBase16Bytes(b) == readTaggedBytes(b, tagBase16)

ReadUUIDBytes(b) ==
    With(ReadTagBytes(b), LAMBDA t:
    IF t.err # "nil" THEN Res(t.err, <<>>, b)
    ELSE IF t.val # U64(tagUUID) THEN Res("InvalidPrefixError", <<>>, b)
    ELSE With(ReadBytesBytes(t.rest), LAMBDA bs:
         IF bs.err # "nil" THEN Res(bs.err, <<>>, b)
         ELSE IF Len(bs.val) # 16 THEN Res("errorString", <<>>, b)
         ELSE Res("nil", bs.val, bs.rest)))

\* val is "found"
StripSelfDescribeCBOR(b) ==
    IF Len(b) < 1 THEN Res("ErrShortBytes", FALSE, b)
    ELSE IF getMajorType(b[1]) # majorTypeTag THEN Res("nil", FALSE, b)
    ELSE With(ReadTagBytes(b), LAMBDA t:
         IF t.err # "nil" THEN Res(t.err, FALSE, b)
         ELSE IF t.val # U64(tagSelfDescribeCBOR) THEN Res("nil", FALSE, b)
         ELSE Res("nil", TRUE, t.rest))

----------------------------------------------------------------------------
(* read_bytes.go: big numbers.  A big.Int is the pair of a flag neg and a  *)
(* magnitude n without leading zero bytes: it is n when neg is false and   *)
(* -1 - n when neg is true.                                                *)

RECURSIVE StripZeros(_)
StripZeros(s) == IF Len(s) > 0 /\ s[1] = 0 THEN StripZeros(Tail(s)) ELSE s

BigInt(neg, mag) == [neg |-> neg, n |-> StripZeros(mag)]

ReadBigIntBytes(b) ==
    With(ReadTagBytes(b), LAMBDA t:
    IF t.err # "nil" THEN Res(t.err, NoVal, b)
    ELSE With(ReadBytesBytes(t.rest), LAMBDA bs:
         IF bs.err # "nil" THEN Res(bs.err, NoVal, b)
         ELSE IF t.val = U64(tagPosBignum) THEN Res("nil", BigInt(FALSE, bs.val), bs.rest)
         ELSE IF t.val = U64(tagNegBignum) THEN Res("nil", BigInt(TRUE, bs.val), bs.rest)
         ELSE Res("InvalidPrefixError", NoVal, b)))

readCBORIntegerAsBigInt(b) ==
    IF Len(b) < 1 THEN Res("ErrShortBytes", NoVal, b)
    ELSE LET major == getMajorType(b[1]) IN
         IF major = majorTypeUint THEN
             With(readUintCore(b, majorTypeUint), LAMBDA u:
             IF u.err # "nil" THEN Res(u.err, NoVal, b)
             ELSE Res("nil", BigInt(FALSE, u.val), u.rest))
         ELSE IF major = majorTypeNegInt THEN
             With(ReadInt64Bytes(b), LAMBDA i:
             IF i.err # "nil" THEN Res(i.err, NoVal, b)
             ELSE Res("nil", BigInt(TRUE, Not64(i.val)), i.rest))
         ELSE IF major = majorTypeTag THEN
             With(ReadTagBytes(b), LAMBDA t:
             IF t.err # "nil" THEN Res(t.err, NoVal, b)
             ELSE IF t.val # U64(tagPosBignum) /\ t.val # U64(tagNegBignum)
                  THEN Res("ErrUnsupportedType", NoVal, b)
             ELSE With(ReadBytesBytes(t.rest), LAMBDA bs:
                  IF bs.err # "nil" THEN Res(bs.err, NoVal, b)
                  ELSE Res("nil", BigInt(t.val = U64(tagNegBignum), bs.val), bs.rest)))
         ELSE Res("ErrUnsupportedType", NoVal, b)

\* the exponent and the mantissa that follow the array header, then the
\* break when the array is indefinite
readExpMant(p, indefinite, b) ==
    With(ReadInt64Bytes(p), LAMBDA e:
    IF e.err # "nil" THEN Res(e.err, NoVal, b)
    ELSE With(readCBORIntegerAsBigInt(e.rest), LAMBDA m:
         IF m.err # "nil" THEN Res(m.err, NoVal, b)
         ELSE IF ~indefinite THEN Res("nil", [exp |-> e.val, mant |-> m.val], m.rest)
         ELSE IF Len(m.rest) < 1 \/ m.rest[1] # makeByte(majorTypeSimple, simpleBreak)
              THEN Res("ErrUnsupportedType", NoVal, b)
         ELSE Res("nil", [exp |-> e.val, mant |-> m.val], Drop(m.rest, 1))))

\* ReadDecimalFractionBytes (want = tagDecimalFrac) and ReadBigfloatBytes
\* (want = tagBigfloat), which differ in the tag only
readTaggedExpMant(b, want) ==
    With(ReadTagBytes(b), LAMBDA t:
    IF t.err # "nil" THEN Res(t.err, NoVal, b)
    ELSE IF t.val # U64(want) THEN Res("ErrUnsupportedType", NoVal, b)
    ELSE LET o == t.rest IN
         IF Len(o) < 1 THEN Res("ErrShortBytes", NoVal, b)
         ELSE IF o[1] = makeByte(majorTypeArray, addInfoIndefinite)
              THEN readExpMant(Drop(o, 1), TRUE, b)
         ELSE With(ReadArrayHeaderBytes(o), LAMBDA h:
              IF h.err # "nil" THEN Res(h.err, NoVal, b)
              ELSE IF h.val # U64(2) THEN Res("ArrayError", NoVal, b)
              ELSE readExpMant(h.rest, FALSE, b)))

ReadDecimalFractionBytes(b) == readTaggedExpMant(b, tagDecimalFrac)
ReadBigfloatBytes(b) == readTaggedExpMant(b, tagBigfloat)

----------------------------------------------------------------------------
(* helpers.go: diagnostic notation.  The result is the error and the       *)
(* bytes left; the text written to the buffer is not part of it.           *)

RECURSIVE diagOneBuf(_, _)
RECURSIVE diagItems(_, _, _)
RECURSIVE diagBytesChunks(_, _)
RECURSIVE diagTextChunks(_, _)
RECURSIVE diagIndef(_, _, _, _)
RECURSIVE diagCount(_, _, _, _, _, _)

\* k consecutive calls diagOneBuf(buf, p, depth), stopping at the first error
diagItems(p, k, depth) ==
    IF k = 0 THEN Res("nil", NoVal, p)
    ELSE With(diagOneBuf(p, depth), LAMBDA r:
         IF r.err # "nil" THEN r ELSE diagItems(r.rest, k - 1, depth))

\* the loop over the chunks of an indefinite-length byte string
diagBytesChunks(p, b) ==
    IF Len(p) < 1 THEN Res("ErrShortBytes", NoVal, b)
    ELSE IF p[1] = makeByte(majorTypeSimple, simpleBreak) THEN Res("nil", NoVal, Drop(p, 1))
    ELSE With(readUintCore(p, majorTypeBytes), LAMBDA h:
         IF h.err # "nil" THEN Res(h.err, NoVal, b)
         ELSE IF LtBytes(U64(Len(h.rest)), h.val) THEN Res("ErrShortBytes", NoVal, b)
         ELSE diagBytesChunks(Drop(h.rest, Nat64(h.val)), b))

\* the loop over the chunks of an indefinite-length text string
diagTextChunks(p, b) ==
    IF Len(p) < 1 THEN Res("ErrShortBytes", NoVal, b)
    ELSE IF p[1] = makeByte(majorTypeSimple, simpleBreak) THEN Res("nil", NoVal, Drop(p, 1))
    ELSE With(ReadStringZC(p), LAMBDA c:
         IF c.err # "nil" THEN Res(c.err, NoVal, b)
         ELSE diagTextChunks(c.rest, b))

\* the loop over an indefinite-length array (per = 1) or map (per = 2)
diagIndef(p, per, depth, b) ==
    IF Len(p) < 1 THEN Res("ErrShortBytes", NoVal, b)
    ELSE IF p[1] = makeByte(majorTypeSimple, simpleBreak) THEN Res("nil", NoVal, Drop(p, 1))
    ELSE With(diagItems(p, per, depth + 1), LAMBDA r:
         IF r.err # "nil" THEN Res(r.err, NoVal, b)
         ELSE diagIndef(r.rest, per, depth, b))

\* for i := uint64(0); i < sz; i++ over an array (per = 1) or map (per = 2)
diagCount(p, i, sz, per, depth, b) ==
    IF ~LtBytes(U64(i), sz) THEN Res("nil", NoVal, p)
    ELSE With(diagItems(p, per, depth + 1), LAMBDA r:
         IF r.err # "nil" THEN Res(r.err, NoVal, b)
         ELSE diagCount(r.rest, i + 1, sz, per, depth, b))

diagOneBuf(b, depth) ==
    IF depth > recursionLimit THEN Res("ErrMaxDepthExceeded", NoVal, b)
    ELSE IF Len(b) < 1 THEN Res("ErrShortBytes", NoVal, b)
    ELSE LET maj == getMajorType(b[1])
             add == getAddInfo(b[1])
         IN
         IF maj \in {majorTypeUint, majorTypeNegInt} THEN
             With(readUintCore(b, maj), LAMBDA h:
             IF h.err # "nil" THEN Res(h.err, NoVal, b) ELSE Res("nil", NoVal, h.rest))
         ELSE IF maj = majorTypeBytes THEN
             IF add = addInfoIndefinite THEN diagBytesChunks(Drop(b, 1), b)
             ELSE With(ReadBytesBytes(b), LAMBDA r:
                  IF r.err # "nil" THEN Res(r.err, NoVal, b) ELSE Res("nil", NoVal, r.rest))
         ELSE IF maj = majorTypeText THEN
             IF add = addInfoIndefinite THEN diagTextChunks(Drop(b, 1), b)
             ELSE With(ReadStringBytes(b), LAMBDA r:
                  IF r.err # "nil" THEN Res(r.err, NoVal, b) ELSE Res("nil", NoVal, r.rest))
         ELSE IF maj \in {majorTypeArray, majorTypeMap} THEN
             LET per == IF maj = majorTypeArray THEN 1 ELSE 2 IN
             IF add = addInfoIndefinite THEN diagIndef(Drop(b, 1), per, depth, b)
             ELSE With(readUintCore(b, maj), LAMBDA h:
                  IF h.err # "nil" THEN Res(h.err, NoVal, b)
                  ELSE diagCount(h.rest, 0, h.val, per, depth, b))
         ELSE IF maj = majorTypeTag THEN
             With(ReadTagBytes(b), LAMBDA t:
             IF t.err # "nil" THEN Res(t.err, NoVal, b)
             ELSE With(diagOneBuf(t.rest, depth + 1), LAMBDA r:
                  IF r.err # "nil" THEN Res(r.err, NoVal, b) ELSE Res("nil", NoVal, r.rest)))
         ELSE \* majorTypeSimple
             IF add \in {simpleFalse, simpleTrue, simpleNull, simpleUndefined}
             THEN Res("nil", NoVal, Drop(b, 1))
             ELSE IF add \in {simpleFloat16, simpleFloat32, simpleFloat64} THEN
                 LET r == CASE add = simpleFloat16 -> ReadFloat16Bytes(b)
                            [] add = simpleFloat32 -> ReadFloat32Bytes(b)
                            [] add = simpleFloat64 -> ReadFloat64Bytes(b)
                 IN  IF r.err # "nil" THEN Res(r.err, NoVal, b) ELSE Res("nil", NoVal, r.rest)
             ELSE IF add < 20 THEN Res("nil", NoVal, Drop(b, 1))
             ELSE IF add = addInfoUint8 THEN
                 IF Len(b) < 2 THEN Res("ErrShortBytes", NoVal, b)
                 ELSE Res("nil", NoVal, Drop(b, 2))
             ELSE Res("ErrUnsupportedType", NoVal, b)

DiagBytes(b) ==
    With(diagOneBuf(b, 0), LAMBDA r:
    IF r.err # "nil" THEN Res(r.err, NoVal, b) ELSE Res("nil", NoVal, r.rest))

----------------------------------------------------------------------------
(* json_interop.go: CBOR to JSON.  The result is the error and the bytes   *)
(* left; the JSON text written to the buffer is not part of it.            *)

\* what a caller makes of the result r of reading one item of b: the error
\* with b, or the bytes after the item
afterItem(r, b) ==
    IF r.err # "nil" THEN Res(r.err, NoVal, b) ELSE Res("nil", NoVal, r.rest)

RECURSIVE toJSON(_, _)
RECURSIVE toJSONEntry(_, _, _)
RECURSIVE toJSONValue(_, _, _)
RECURSIVE toJSONArrayIndef(_, _, _)
RECURSIVE toJSONArrayCount(_, _, _, _, _)
RECURSIVE toJSONMapIndef(_, _, _)
RECURSIVE toJSONMapCount(_, _, _, _, _)

\* one key and its value at p of the map b; p[0] is read without a check
\* of len(p), which the indefinite loop has made and the definite one has not
toJSONEntry(p, depth, b) ==
    IF Len(p) < 1 THEN Res("panic", NoVal, b)
    ELSE toJSONValue(IF getMajorType(p[1]) = majorTypeText THEN ReadStringBytes(p)
                     ELSE DiagBytes(p), depth, b)

\* the value that follows the key read as k
toJSONValue(k, depth, b) ==
    IF k.err # "nil" THEN Res(k.err, NoVal, b)
    ELSE afterItem(toJSON(k.rest, depth + 1), b)

toJSONArrayIndef(p, depth, b) ==
    IF Len(p) < 1 THEN Res("ErrShortBytes", NoVal, b)
    ELSE IF p[1] = makeByte(majorTypeSimple, simpleBreak) THEN Res("nil", NoVal, Drop(p, 1))
    ELSE With(toJSON(p, depth + 1), LAMBDA r:
         IF r.err # "nil" THEN Res(r.err, NoVal, b)
         ELSE toJSONArrayIndef(r.rest, depth, b))

toJSONArrayCount(p, i, sz, depth, b) ==
    IF ~LtBytes(U64(i), sz) THEN Res("nil", NoVal, p)
    ELSE With(toJSON(p, depth + 1), LAMBDA r:
         IF r.err # "nil" THEN Res(r.err, NoVal, b)
         ELSE toJSONArrayCount(r.rest, i + 1, sz, depth, b))

toJSONMapIndef(p, depth, b) ==
    IF Len(p) < 1 THEN Res("ErrShortBytes", NoVal, b)
    ELSE IF p[1] = makeByte(majorTypeSimple, simpleBreak) THEN Res("nil", NoVal, Drop(p, 1))
    ELSE With(toJSONEntry(p, depth, b), LAMBDA r:
         IF r.err # "nil" THEN r
         ELSE toJSONMapIndef(r.rest, depth, b))

toJSONMapCount(p, i, sz, depth, b) ==
    IF ~LtBytes(U64(i), sz) THEN Res("nil", NoVal, p)
    ELSE With(toJSONEntry(p, depth, b), LAMBDA r:
         IF r.err # "nil" THEN r
         ELSE toJSONMapCount(r.rest, i + 1, sz, depth, b))

\* the reader that the tag switch of toJSON hands all of b to
toJSONTagReader(tag, b) ==
    CASE tag = U64(tagDateTimeString) -> ReadRFC3339TimeBytes(b)
      [] tag = U64(tagEpochDateTime) -> ReadTimeBytes(b)
      [] tag \in {U64(tagPosBignum), U64(tagNegBignum)} -> ReadBigIntBytes(b)
      [] tag = U64(tagDecimalFrac) -> ReadDecimalFractionBytes(b)
      [] tag = U64(tagBigfloat) -> ReadBigfloatBytes(b)
      [] tag = U64(tagBase64URL) -> ReadBase64URLBytes(b)
      [] tag = U64(tagBase64) -> ReadBase64Bytes(b)
      [] tag = U64(tagBase16) -> ReadBase16Bytes(b)
      [] tag = U64(tagCBOR) -> ReadEmbeddedCBORBytes(b)
      [] tag = U64(tagURI) -> ReadURIStringBytes(b)
      [] tag = U64(tagBase64URLString) -> ReadBase64URLStringBytes(b)
      [] tag = U64(tagBase64String) -> ReadBase64StringBytes(b)
      [] tag = U64(tagRegexp) -> ReadRegexpStringBytes(b)
      [] tag = U64(tagMIME) -> ReadMIMEStringBytes(b)
      [] tag = U64(tagUUID) -> ReadUUIDBytes(b)

toJSONReaderTags ==
    { U64(t) : t \in {tagDateTimeString, tagEpochDateTime, tagPosBignum, tagNegBignum,
                      tagDecimalFrac, tagBigfloat, tagBase64URL, tagBase64, tagBase16,
                      tagCBOR, tagURI, tagBase64URLString, tagBase64String, tagRegexp,
                      tagMIME, tagUUID} }

toJSON(b, depth) ==
    IF depth > recursionLimit THEN Res("ErrMaxDepthExceeded", NoVal, b)
    ELSE IF Len(b) < 1 THEN Res("ErrShortBytes", NoVal, b)
    ELSE LET maj == getMajorType(b[1])
             add == getAddInfo(b[1])
         IN
         IF maj \in {majorTypeUint, majorTypeNegInt} THEN
             afterItem(readUintCore(b, maj), b)
         ELSE IF maj = majorTypeBytes THEN
             afterItem(ReadBytesBytes(b), b)
         ELSE IF maj = majorTypeText THEN
             afterItem(ReadStringBytes(b), b)
         ELSE IF maj = majorTypeArray THEN
             IF add = addInfoIndefinite THEN toJSONArrayIndef(Drop(b, 1), depth, b)
             ELSE With(readUintCore(b, majorTypeArray), LAMBDA h:
                  IF h.err # "nil" THEN Res(h.err, NoVal, b)
                  ELSE toJSONArrayCount(h.rest, 0, h.val, depth, b))
         ELSE IF maj = majorTypeMap THEN
             IF add = addInfoIndefinite THEN toJSONMapIndef(Drop(b, 1), depth, b)
             ELSE With(readUintCore(b, majorTypeMap), LAMBDA h:
                  IF h.err # "nil" THEN Res(h.err, NoVal, b)
                  ELSE toJSONMapCount(h.rest, 0, h.val, depth, b))
         ELSE IF maj = majorTypeTag THEN
             With(ReadTagBytes(b), LAMBDA t:
             IF t.err # "nil" THEN Res(t.err, NoVal, b)
             ELSE IF t.val \in toJSONReaderTags THEN
                 afterItem(toJSONTagReader(t.val, b), b)
             ELSE IF t.val = U64(tagSelfDescribeCBOR) THEN
                 \* the bytes after the tag header are returned unread
                 IF StripSelfDescribeCBOR(b).val THEN Res("nil", NoVal, ReadTagBytes(b).rest)
                 ELSE Res("ErrUnsupportedType", NoVal, b)
             ELSE afterItem(toJSON(t.rest, depth + 1), b))
         ELSE \* majorTypeSimple
             IF add \in {simpleFalse, simpleTrue, simpleNull, simpleUndefined}
             THEN Res("nil", NoVal, Drop(b, 1))
             ELSE IF add \in {simpleFloat16, simpleFloat32, simpleFloat64} THEN
                 afterItem(CASE add = simpleFloat16 -> ReadFloat16Bytes(b)
                             [] add = simpleFloat32 -> ReadFloat32Bytes(b)
                             [] add = simpleFloat64 -> ReadFloat64Bytes(b), b)
             ELSE IF add = addInfoUint8 THEN
                 IF Len(b) < 2 THEN Res("ErrShortBytes", NoVal, b)
                 ELSE Res("nil", NoVal, Drop(b, 2))
             ELSE IF add < 20 THEN Res("nil", NoVal, Drop(b, 1))
             ELSE Res("ErrUnsupportedType", NoVal, b)

ToJSONBytes(b) ==
    afterItem(toJSON(b, 0), b)

----------------------------------------------------------------------------
(* The stateless functions applied to an input buffer.                     *)

\* 0x01 (the integer 1), "a" (also a text header of length 1), 0xff (break)
BytesPayload == {1, 97, 255}
ByteTails(n) == UNION { [1..k -> BytesPayload] : k \in 0..n }

\* headers of the tags that have a reader of their own, of tag 6 and of
\* tag 55799
TagHeads ==
    { <<192>>, <<193>>, <<194>>, <<195>>, <<196>>, <<197>>, <<198>>,
      <<213>>, <<214>>, <<215>>, <<216, 24>>,
      <<216, 32>>, <<216, 33>>, <<216, 34>>, <<216, 35>>, <<216, 36>>, <<216, 37>>,
      <<217, 217, 247>> }

\* what a tag is put in front of: integers, byte and text strings (empty,
\* of one and two bytes, indefinite), arrays, floats, true and null
InnerHeads ==
    { <<1>>, <<32>>, <<64>>, <<65>>, <<66>>, <<95>>, <<96>>, <<97>>, <<98>>, <<127>>,
      <<130>>, <<159>>, <<244>>, <<246>>,
      <<249, 60, 0>>, <<250, 63, 128, 0, 0>>, <<251, 63, 240, 0, 0, 0, 0, 0, 0>> }

\* "2006-01-02T15:04:05Z" and the same with month 13
Rfc3339Text == <<50, 48, 48, 54, 45, 48, 49, 45, 48, 50, 84, 49, 53, 58, 48, 52, 58, 48, 53, 90>>
Rfc3339BadMonth == [Rfc3339Text EXCEPT ![6] = 49, ![7] = 51]

ExtraInputs ==
    { <<>>,
      <<95, 65, 1, 255>>, <<95, 65, 1, 65, 97, 255>>, <<127, 97, 97, 97, 97, 255>>,
      <<248, 32>>, <<248, 255>>, <<248, 1>>,
      <<216, 37, 80>> \o Rep(1, 16), <<216, 37, 80>> \o Rep(1, 15),
      <<192, 116>> \o Rfc3339Text, <<192, 116>> \o Rfc3339BadMonth,
      <<196, 159, 1, 1, 255>>, <<197, 159, 32, 32, 255>>, <<196, 159, 1, 1, 1>>,
      <<196, 130, 1, 194, 65, 1>>, <<197, 130, 1, 195, 65, 1>>,
      <<161, 1, 1>>, <<161, 97, 97, 1>>, <<191, 1, 1, 255>>, <<162, 1, 1>> }

ByteInputs ==
    { h \o t : h \in Heads, t \in ByteTails(MaxBytesTail) }
        \cup { th \o ih \o t : th \in TagHeads, ih \in InnerHeads, t \in ByteTails(MaxTagTail) }
        \cup ExtraInputs

InitBytes ==
    /\ wire \in ByteInputs
    /\ fn = "input"
    /\ res = IdleRes
    /\ val = NoVal
    /\ ReaderIdle
    /\ PoolIdle
    /\ generatedStructs = {}

\* the function named name applied to the input, r being what it returns
Apply(name, r) ==
    /\ fn = "input"
    /\ fn' = name
    /\ res' = r
    /\ UNCHANGED <<val, wire, readerVars, poolVars, generatedStructs>>

NextBytes ==
    \/ Apply("ReadMapHeaderBytes", ReadMapHeaderBytes(wire))
    \/ Apply("ReadArrayHeaderBytes", ReadArrayHeaderBytes(wire))
    \/ Apply("ReadMapStartBytes", ReadMapStartBytes(wire))
    \/ Apply("ReadArrayStartBytes", ReadArrayStartBytes(wire))
    \/ Apply("ReadBreakBytes", ReadBreakBytes(wire))
    \/ Apply("ReadNilBytes", ReadNilBytes(wire))
    \/ Apply("ReadFloat64Bytes", ReadFloat64Bytes(wire))
    \/ Apply("ReadFloat32Bytes", ReadFloat32Bytes(wire))
    \/ Apply("ReadFloat16Bytes", ReadFloat16Bytes(wire))
    \/ Apply("ReadBoolBytes", ReadBoolBytes(wire))
    \/ Apply("ReadInt64Bytes", ReadInt64Bytes(wire))
    \/ Apply("ReadInt32Bytes", ReadIntNBytes(wire, 32))
    \/ Apply("ReadInt16Bytes", ReadIntNBytes(wire, 16))
    \/ Apply("ReadInt8Bytes", ReadIntNBytes(wire, 8))
    \/ Apply("ReadIntBytes", ReadIntBytes(wire))
    \/ Apply("ReadUint64Bytes", ReadUint64Bytes(wire))
    \/ Apply("ReadUint32Bytes", ReadUintNBytes(wire, 32))
    \/ Apply("ReadUint16Bytes", ReadUintNBytes(wire, 16))
    \/ Apply("ReadUint8Bytes", ReadUintNBytes(wire, 8))
    \/ Apply("ReadUintBytes", ReadUintBytes(wire))
    \/ Apply("ReadDurationBytes", ReadDurationBytes(wire))
    \/ Apply("ReadBytesBytes", ReadBytesBytes(wire))
    \/ Apply("ReadStringZC", ReadStringZC(wire))
    \/ Apply("ReadStringBytes", ReadStringBytes(wire))
    \/ Apply("ReadMapKeyZC", ReadMapKeyZC(wire))
    \/ Apply("ReadSimpleValue", ReadSimpleValue(wire))
    \/ Apply("ReadTimeBytes", ReadTimeBytes(wire))
    \/ Apply("ReadTagBytes", ReadTagBytes(wire))
    \/ Apply("ReadRFC3339TimeBytes", ReadRFC3339TimeBytes(wire))
    \/ Apply("ReadBase64URLStringBytes", ReadBase64URLStringBytes(wire))
    \/ Apply("ReadBase64StringBytes", ReadBase64StringBytes(wire))
    \/ Apply("ReadURIStringBytes", ReadURIStringBytes(wire))
    \/ Apply("ReadEmbeddedCBORBytes", ReadEmbeddedCBORBytes(wire))
    \/ Apply("ReadBase64URLBytes", ReadBase64URLBytes(wire))
    \/ Apply("ReadBase64Bytes", ReadBase64Bytes(wire))
    \/ Apply("ReadBase16Bytes", ReadBase16Bytes(wire))
    \/ Apply("ReadUUIDBytes", ReadUUIDBytes(wire))
    \/ Apply("ReadRegexpStringBytes", ReadRegexpStringBytes(wire))
    \/ Apply("ReadMIMEStringBytes", ReadMIMEStringBytes(wire))
    \/ Apply("StripSelfDescribeCBOR", StripSelfDescribeCBOR(wire))
    \/ Apply("ReadBigIntBytes", ReadBigIntBytes(wire))
    \/ Apply("ReadDecimalFractionBytes", ReadDecimalFractionBytes(wire))
    \/ Apply("ReadBigfloatBytes", ReadBigfloatBytes(wire))
    \/ Apply("Skip", Skip(wire))
    \/ Apply("ValidateWellFormedBytes", ValidateWellFormedBytes(wire))
    \/ Apply("DiagBytes", DiagBytes(wire))
    \/ Apply("ToJSONBytes", ToJSONBytes(wire))

SpecBytes == InitBytes /\ [][NextBytes]_vars

\* the functions that read from the front of a byte slice and return the
\* slice that is left
ByteReaders ==
    { "ReadMapHeaderBytes", "ReadArrayHeaderBytes", "ReadMapStartBytes",
      "ReadArrayStartBytes", "ReadBreakBytes", "ReadNilBytes", "ReadFloat64Bytes",
      "ReadFloat32Bytes", "ReadFloat16Bytes", "ReadBoolBytes", "ReadInt64Bytes",
      "ReadInt32Bytes", "ReadInt16Bytes", "ReadInt8Bytes", "ReadIntBytes",
      "ReadUint64Bytes", "ReadUint32Bytes", "ReadUint16Bytes", "ReadUint8Bytes",
      "ReadUintBytes", "ReadDurationBytes", "ReadBytesBytes", "ReadStringZC",
      "ReadStringBytes", "ReadMapKeyZC", "ReadSimpleValue", "ReadTimeBytes",
      "ReadTagBytes", "ReadRFC3339TimeBytes", "ReadBase64URLStringBytes",
      "ReadBase64StringBytes", "ReadURIStringBytes", "ReadEmbeddedCBORBytes",
      "ReadBase64URLBytes", "ReadBase64Bytes", "ReadBase16Bytes", "ReadUUIDBytes",
      "ReadRegexpStringBytes", "ReadMIMEStringBytes", "StripSelfDescribeCBOR",
      "ReadBigIntBytes", "ReadDecimalFractionBytes", "ReadBigfloatBytes" }

\* those of them that consume one complete item, and the JSON converter
ItemReaders ==
    (ByteReaders \ { "ReadMapHeaderBytes", "ReadArrayHeaderBytes", "ReadMapStartBytes",
                     "ReadArrayStartBytes", "ReadBreakBytes", "ReadTagBytes",
                     "StripSelfDescribeCBOR" })
        \cup { "ToJSONBytes" }

\* the function returned an error (it did not panic)
Failed == res.err \notin {"nil", "panic"}

\* C8: every stateless byte-slice reader that returns an error returns as
\* its remainder exactly the slice it was given, however the input is
\* malformed, before or after a tag header.
C8_ErrorReturnsInput ==
    (fn \in ByteReaders /\ Failed) => res.rest = wire

\* C9: whenever a reader of one complete item (integer, float, boolean,
\* null, simple value, byte string, text string, time, tagged value, big
\* number) or the CBOR-to-JSON converter succeeds on b, Skip(b) succeeds
\* too and returns the same remainder.
C9_SkipAgreesWithReaders ==
    (fn \in ItemReaders /\ res.err = "nil") =>
        (Skip(wire).err = "nil" /\ Skip(wire).rest = res.rest)

\* C10: whenever the well-formedness check succeeds on b, Skip(b) succeeds
\* and consumes the same number of bytes.
C10_SkipAgreesWithValidate ==
    (fn = "ValidateWellFormedBytes" /\ res.err = "nil") =>
        (Skip(wire).err = "nil" /\ Len(Skip(wire).rest) = Len(res.rest))

----------------------------------------------------------------------------
(* read_bytes.go: deterministic map encoders.  A Go map is given as the    *)
(* sequence of its entries in the order in which range visits them, which  *)
(* is any order; a []RawPair is the sequence it is.                        *)

\* bounds of the inputs: entries per map
MaxPairs == 3

AppendMapHeader(b, sz) == appendUintCore(b, majorTypeMap, U64(sz))

RECURSIVE bytesLess(_, _)
\* bytes.Compare(a, b) < 0
bytesLess(a, b) ==
    IF Len(b) = 0 THEN FALSE
    ELSE IF Len(a) = 0 THEN TRUE
    ELSE IF a[1] # b[1] THEN a[1] < b[1]
    ELSE bytesLess(Tail(a), Tail(b))

RECURSIVE insertBack(_, _, _)
\* for j := i; j > a && less(j, j-1); j-- { swap(j, j-1) }
insertBack(s, j, key) ==
    IF j > 1 /\ bytesLess(key[s[j]], key[s[j - 1]])
    THEN insertBack([s EXCEPT ![j] = s[j - 1], ![j - 1] = s[j]], j - 1, key)
    ELSE s

RECURSIVE insertionSort(_, _, _)
insertionSort(s, i, key) ==
    IF i > Len(s) THEN s ELSE insertionSort(insertBack(s, i, key), i + 1, key)

\* sort.Slice(grp, less) with less comparing the keys by bytes.Compare: for
\* at most 12 elements sort.Slice is an insertion sort
sortSlice(grp, key) == insertionSort(grp, 2, key)

\* a pass that puts the indices of one byte value in reverse order
countingPass_Unstable(cur, pos, key) ==
    LET n == Len(cur)
        byteAt(i) == key[cur[i]][pos + 1]
        place(i) == Cardinality({ j \in 1..n : byteAt(j) < byteAt(i) })
                      + Cardinality({ j \in i..n : byteAt(j) = byteAt(i) })
    IN  <<>> \o [p \in 1..n |-> cur[CHOOSE i \in 1..n : place(i) = p]]

\* one pass of the counting sort on the byte at pos: counts[v] becomes the
\* number of keys with a smaller byte there, and each index of cur goes to
\* the next free place of its byte
countingPass(cur, pos, key) ==
    LET n == Len(cur)
        byteAt(i) == key[cur[i]][pos + 1]
        place(i) == Cardinality({ j \in 1..n : byteAt(j) < byteAt(i) })
                      + Cardinality({ j \in 1..i : byteAt(j) = byteAt(i) })
    IN  <<>> \o [p \in 1..n |-> cur[CHOOSE i \in 1..n : place(i) = p]]

RECURSIVE radixSort(_, _, _)
\* for pos := l - 1; pos >= 0; pos-- { ...; cur, aux = aux, cur }; the passes
\* over an empty cur move nothing
radixSort(cur, pos, key) ==
    IF pos < 0 \/ Len(cur) = 0 THEN cur
    ELSE radixSort(countingPass(cur, pos, key), pos - 1, key)

\* the order of one bucket of keys of length l
sortGroup(grp, l, key) ==
    IF Len(grp) <= 1 THEN grp
    ELSE IF l < 64 /\ Len(grp) < 1024 THEN sortSlice(grp, key)
    ELSE radixSort(grp, l - 1, key)

RECURSIVE orderFrom(_, _)
\* for _, l := range lens (sorted): the buckets in ascending key length
orderFrom(lens, key) ==
    IF lens = {} THEN <<>>
    ELSE LET l == CHOOSE x \in lens : \A y \in lens : x <= y
             grp == SelectSeq([i \in 1..Len(key) |-> i], LAMBDA i : Len(key[i]) = l)
         IN  sortGroup(grp, l, key) \o orderFrom(lens \ {l}, key)

\* order: the indices of the entries in the order in which they are written
keyOrder(key) == orderFrom({ Len(key[i]) : i \in 1..Len(key) }, key)

RECURSIVE emitPairs(_, _, _, _)
\* for _, i := range order { b = append(b, key...); b = append(b, value...) }
emitPairs(b, order, key, value) ==
    IF order = <<>> THEN b
    ELSE emitPairs(b \o key[Head(order)] \o value[Head(order)], Tail(order), key, value)

AppendRawMapDeterministic(b, pairs) ==
    IF Len(pairs) = 0 THEN AppendMapHeader(b, 0)
    ELSE LET key == [i \in 1..Len(pairs) |-> pairs[i].Key]
             value == [i \in 1..Len(pairs) |-> pairs[i].Value]
         IN  emitPairs(AppendMapHeader(b, Len(pairs)), keyOrder(key), key, value)

\* m: the entries [key, val] as range m yields them; keyEnc is the slice of
\* scratch that encKey has appended
AppendMapDeterministic(b, m, encKey(_, _), encVal(_, _)) ==
    LET keyEnc == [i \in 1..Len(m) |-> encKey(<<>>, m[i].key)]
        valEnc == [i \in 1..Len(m) |-> encVal(<<>>, m[i].val)]
    IN  emitPairs(AppendMapHeader(b, Len(m)), keyOrder(keyEnc), keyEnc, valEnc)

EncKeyString(dst, s) == AppendString(dst, s)
EncValString(dst, s) == AppendString(dst, s)

AppendMapDeterministicStrStr(b, m) ==
    AppendMapDeterministic(b, m, EncKeyString, EncValString)

\* sort.Slice(arr, ...) over all the entries by bytes.Compare of enc
AppendMapStrStrDeterministic(b, m) ==
    LET enc == [i \in 1..Len(m) |-> AppendString(<<>>, m[i].key)]
        valEnc == [i \in 1..Len(m) |-> AppendString(<<>>, m[i].val)]
    IN  emitPairs(AppendMapHeader(b, Len(m)),
                  sortSlice([i \in 1..Len(m) |-> i], enc), enc, valEnc)

\* the values are strings: AppendInterface writes them with AppendString
AppendMapStrInterfaceDeterministic(b, m) ==
    LET enc == [i \in 1..Len(m) |-> AppendString(<<>>, m[i].key)]
        valEnc == [i \in 1..Len(m) |-> AppendString(<<>>, m[i].val)]
    IN  emitPairs(AppendMapHeader(b, Len(m)),
                  sortSlice([i \in 1..Len(m) |-> i], enc), enc, valEnc)

----------------------------------------------------------------------------
(* read_bytes.go: the map reader that rejects duplicate keys.  seen is the *)
(* set of the raw keys read so far.                                        *)

RECURSIVE noDupIndef(_, _, _)
RECURSIVE noDupCount(_, _, _, _, _)

\* the key is not recorded
markSeen_Forgets(seen, rawKey) == seen

\* seen[keyStr] = struct{}{}
markSeen(seen, rawKey) == seen \cup {rawKey}

\* one entry at p: the raw key is captured and looked up, then the value is
\* skipped; next(p2, seen2) is the rest of the loop
noDupEntry(p, seen, b, next(_, _)) ==
    With(Skip(p), LAMBDA r:
    IF r.err # "nil" THEN Res(r.err, NoVal, b)
    ELSE LET rawKey == Take(p, Len(p) - Len(r.rest)) IN
         IF rawKey \in seen THEN Res("ErrDuplicateMapKey", NoVal, b)
         ELSE With(Skip(r.rest), LAMBDA r2:
              IF r2.err # "nil" THEN Res(r2.err, NoVal, b)
              ELSE next(r2.rest, markSeen(seen, rawKey))))

noDupIndef(p, seen, b) ==
    IF Len(p) < 1 THEN Res("ErrShortBytes", NoVal, b)
    ELSE IF p[1] = makeByte(majorTypeSimple, simpleBreak) THEN Res("nil", NoVal, Drop(p, 1))
    ELSE noDupEntry(p, seen, b, LAMBDA p2, seen2 : noDupIndef(p2, seen2, b))

\* for i := uint32(0); i < sz; i++
noDupCount(p, i, sz, seen, b) ==
    IF ~LtBytes(U64(i), sz) THEN Res("nil", NoVal, p)
    ELSE noDupEntry(p, seen, b, LAMBDA p2, seen2 : noDupCount(p2, i + 1, sz, seen2, b))

ReadMapNoDupBytes(b) ==
    IF Len(b) < 1 THEN Res("ErrShortBytes", NoVal, b)
    ELSE IF getMajorType(b[1]) # majorTypeMap THEN Res("InvalidPrefixError", NoVal, b)
    ELSE IF getAddInfo(b[1]) = addInfoIndefinite THEN noDupIndef(Drop(b, 1), {}, b)
    ELSE With(ReadMapHeaderBytes(b), LAMBDA h:
         IF h.err # "nil" THEN Res(h.err, NoVal, b)
         ELSE noDupCount(h.rest, 0, h.val, {}, b))

----------------------------------------------------------------------------
(* The deterministic encoders applied to bounded maps.                     *)

\* a byte string of 62 bytes (64 with its header) that starts with x and
\* ends with y, and one of 63 bytes
LongKey(x, y) == <<88, 62, x>> \o Rep(7, 60) \o <<y>>
LongerKey == <<88, 63>> \o Rep(7, 63)

\* raw keys: the integers 1, 2 and 100, the text "a", and byte strings long
\* enough for the radix sort, which differ in their first and last bytes
RawKeys ==
    { <<1>>, <<2>>, <<24, 100>>, <<97, 97>>, LongerKey }
        \cup { LongKey(x, y) : x \in {1, 2}, y \in {1, 2} }

\* the pairs carry their position as value
RawPairLists ==
    UNION { { [i \in 1..n |-> [Key |-> k[i], Value |-> <<i>>]] : k \in [1..n -> RawKeys] }
            : n \in 0..MaxPairs }

\* text of 62 bytes (64 with its header) that ends with y
LongText(y) == Rep(97, 61) \o <<y>>

TextKeys ==
    { <<>>, <<97>>, <<98>>, <<97, 97>>, Rep(97, 23), Rep(98, 24), LongText(97), LongText(98) }

\* a map[string]string has no two entries with the same key
StrStrMaps ==
    UNION { { [i \in 1..n |-> [key |-> k[i], val |-> <<120>>]] :
                k \in { f \in [1..n -> TextKeys] : \A i, j \in 1..n : f[i] = f[j] => i = j } }
            : n \in 0..MaxPairs }

\* keys of maps on the wire: 1, 2, 1 in two bytes, "a", an empty indefinite
\* array, and a simple value in two bytes (which Skip does not accept)
WireKeys == { <<1>>, <<2>>, <<24, 1>>, <<97, 97>>, <<159, 255>>, <<248, 32>> }

\* maps on the wire, definite and indefinite, by their keys; entry i has
\* the value i, and tail follows the map
WireMaps ==
    UNION { [keys : [1..n -> WireKeys], indefinite : BOOLEAN, tail : {<<>>, <<1>>}]
            : n \in 0..MaxPairs }

RECURSIVE wireEntries(_, _)
wireEntries(keys, i) ==
    IF i > Len(keys) THEN <<>> ELSE keys[i] \o <<i>> \o wireEntries(keys, i + 1)

WireOf(m) ==
    IF m.indefinite
    THEN <<makeByte(majorTypeMap, addInfoIndefinite)>> \o wireEntries(m.keys, 1)
             \o <<makeByte(majorTypeSimple, simpleBreak)>> \o m.tail
    ELSE <<makeByte(majorTypeMap, Len(m.keys))>> \o wireEntries(m.keys, 1) \o m.tail

InitMap ==
    /\ \/ fn = "pairs" /\ val \in RawPairLists /\ wire = <<>>
       \/ fn = "map" /\ val \in StrStrMaps /\ wire = <<>>
       \/ fn = "wire" /\ val \in WireMaps /\ wire = WireOf(val)
    /\ res = IdleRes
    /\ ReaderIdle
    /\ PoolIdle
    /\ generatedStructs = {}

NextMap ==
    \/ Encode("pairs", "AppendRawMapDeterministic", AppendRawMapDeterministic(<<>>, val))
    \/ Encode("map", "AppendMapDeterministicStrStr", AppendMapDeterministicStrStr(<<>>, val))
    \/ Encode("map", "AppendMapStrStrDeterministic", AppendMapStrStrDeterministic(<<>>, val))
    \/ Encode("map", "AppendMapStrInterfaceDeterministic",
              AppendMapStrInterfaceDeterministic(<<>>, val))
    \/ Decode("wire", "ReadMapNoDupBytes", ReadMapNoDupBytes(wire))
    \/ Decode("AppendRawMapDeterministic", "ReadMapNoDupBytes of the map written",
              ReadMapNoDupBytes(wire))

SpecMap == InitMap /\ [][NextMap]_vars

MapEncoders ==
    { "AppendRawMapDeterministic", "AppendMapDeterministicStrStr",
      "AppendMapStrStrDeterministic", "AppendMapStrInterfaceDeterministic" }

\* the encoded key of entry i of the input
InputKey(i) == IF fn = "AppendRawMapDeterministic" THEN val[i].Key
               ELSE AppendString(<<>>, val[i].key)

RECURSIVE writtenKeys(_, _)
\* the encoded keys of the n entries that start at p, in the order in which
\* they stand there; each key and each value is the bytes of one item
writtenKeys(p, n) ==
    IF n = 0 THEN <<>>
    ELSE With(Skip(p), LAMBDA k:
         <<Take(p, Len(p) - Len(k.rest))>> \o writtenKeys(Skip(k.rest).rest, n - 1))

\* a stands before b: shorter first, then bytewise
KeyBefore(a, b) == Len(a) < Len(b) \/ (Len(a) = Len(b) /\ bytesLess(a, b))

C12_DuplicateIffSameKeyBytes ==
    /\ (fn = "ReadMapNoDupBytes"
           /\ \A i \in 1..Len(val.keys) : Skip(val.keys[i]).err = "nil"
                                            /\ Skip(val.keys[i]).rest = <<>>) =>
           IF \E i, j \in 1..Len(val.keys) : i # j /\ val.keys[i] = val.keys[j]
           THEN res.err = "ErrDuplicateMapKey" /\ res.rest = wire
           ELSE res.err = "nil" /\ res.rest = val.tail
    /\ fn = "ReadMapNoDupBytes of the map written" =>
           IF \E i, j \in 1..Len(val) : i # j /\ val[i].Key = val[j].Key
           THEN res.err = "ErrDuplicateMapKey" /\ res.rest = wire
           ELSE res.err = "nil" /\ res.rest = <<>>

\* an indefinite map of three entries whose first and last keys are the
\* same has been refused, and a definite map with the keys 1 and 1 written
\* in two bytes has been read up to its tail
C12_Witness ==
    /\ fn = "ReadMapNoDupBytes"
    /\ \/ /\ val.indefinite /\ Len(val.keys) = 3 /\ val.keys[1] = val.keys[3]
          /\ val.keys[2] = <<159, 255>> /\ res.err = "ErrDuplicateMapKey"
       \/ /\ ~val.indefinite /\ val.keys = <<<<1>>, <<24, 1>>>> /\ val.tail = <<1>>
          /\ res.err = "nil"


----------------------------------------------------------------------------
(* read_bytes.go: CBOR sequences.                                          *)

MaxItems == 3

RECURSIVE sequenceSegments(_, _)

\* for _, it := range items { b = append(b, it...) }
RECURSIVE AppendSequence(_, _)
AppendSequence(b, items) ==
    IF Len(items) = 0 THEN b
    ELSE AppendSequence(b \o items[1], Drop(items, 1))

\* seg is what follows the item instead of the item
sequenceSegments_Remainder(p, out) ==
    IF Len(p) = 0 THEN [err |-> "nil", segs |-> out]
    ELSE With(Skip(p), LAMBDA r:
         IF r.err # "nil" THEN [err |-> r.err, segs |-> out]
         ELSE sequenceSegments(r.rest, Append(out, r.rest)))

\* the loop of ForEachSequenceBytes: the segments cut by Skip up to the end
\* of the buffer or the first error of Skip
sequenceSegments(p, out) ==
    IF Len(p) = 0 THEN [err |-> "nil", segs |-> out]
    ELSE With(Skip(p), LAMBDA r:
         IF r.err # "nil" THEN [err |-> r.err, segs |-> out]
         ELSE sequenceSegments(r.rest, Append(out, Take(p, Len(p) - Len(r.rest)))))

\* onItem(seg) is the error of the callback; visited is the sequence of the
\* segments it was called with
ForEachSequenceBytes(b, onItem(_)) ==
    With(sequenceSegments(b, <<>>), LAMBDA s:
    LET stops == { i \in 1..Len(s.segs) : onItem(s.segs[i]) # "nil" } IN
    IF stops = {} THEN [err |-> s.err, visited |-> s.segs]
    ELSE LET i == CHOOSE k \in stops : \A j \in stops : k <= j
         IN  [err |-> onItem(s.segs[i]), visited |-> Take(s.segs, i)])

\* out = append(out, it) in the callback
SplitSequenceBytes(b) ==
    With(ForEachSequenceBytes(b, LAMBDA it : "nil"), LAMBDA r:
    [err |-> r.err, out |-> r.visited])

----------------------------------------------------------------------------
(* Sequences written from bounded lists of byte strings and split again.   *)

\* the integers 1 and 42, "hi", [1, 2], an empty indefinite array, an
\* indefinite byte string, {1: 1}, tag 1 of 1, null, the float 1.0; and two
\* byte strings that are no item: a header without its argument and nothing
SeqItems ==
    { <<1>>, <<24, 42>>, <<98, 104, 105>>, <<130, 1, 2>>, <<159, 255>>,
      <<95, 65, 1, 255>>, <<161, 1, 1>>, <<193, 1>>, <<246>>, <<249, 60, 0>>,
      <<24>>, <<>> }

ItemLists == UNION { [1..n -> SeqItems] : n \in 0..MaxItems }

InitSeq ==
    /\ fn = "items" /\ val \in ItemLists /\ wire = <<>>
    /\ res = IdleRes
    /\ ReaderIdle
    /\ PoolIdle
    /\ generatedStructs = {}

\* the callback of the test, which accepts every item
acceptItem(item) == "nil"

NextSeq ==
    \/ Encode("items", "AppendSequence", AppendSequence(<<>>, val))
    \/ Decode("AppendSequence", "SplitSequenceBytes", SplitSequenceBytes(wire))
    \/ Decode("AppendSequence", "ForEachSequenceBytes", ForEachSequenceBytes(wire, acceptItem))

SpecSeq == InitSeq /\ [][NextSeq]_vars

\* a complete item and nothing else
IsRawItem(it) == Skip(it).err = "nil" /\ Skip(it).rest = <<>>

\* C13: when every member of the list is one complete item, splitting the
\* appended sequence returns the list itself without error and iterating it
\* visits the members of the list in order; the empty list is written as no
\* byte at all and read back as no item.
C13_SplitOfAppendIsIdentity ==
    (\A i \in 1..Len(val) : IsRawItem(val[i])) =>
        /\ (fn = "AppendSequence" /\ val = <<>>) => wire = <<>>
        /\ fn = "SplitSequenceBytes" => res.err = "nil" /\ res.out = val
        /\ fn = "ForEachSequenceBytes" => res.err = "nil" /\ res.visited = val

\* "hi" and 42 as in the test, between two containers
C13_Witness ==
    /\ fn = "SplitSequenceBytes"
    /\ val = <<<<98, 104, 105>>, <<24, 42>>, <<130, 1, 2>>>>
    /\ res.out = val


----------------------------------------------------------------------------
(* The recursion ceiling.  skip, validateWellFormed, diagOneBuf and toJSON *)
(* are entered with depth = d by d nested arrays, maps or tags around the  *)
(* item; they are applied here to small items at depths around the         *)
(* ceiling, which stands for the item under that many enclosing levels.    *)

\* levels of nesting inside the items drawn
MaxNest == 2

\* the integer 1 and the empty array; then [x], 6(x), 1(x), {k: 1}, {k: []}
\* and {1: x} around the items of one level less
RECURSIVE NestedItems(_)
NestedItems(n) ==
    IF n = 0 THEN { <<1>>, <<128>> }
    ELSE NestedItems(n - 1)
            \cup { <<h>> \o x : h \in {129, 198, 193}, x \in NestedItems(n - 1) }
            \cup { <<161>> \o k \o v : k \in NestedItems(n - 1), v \in NestedItems(0) }
            \cup { <<161, 1>> \o v : v \in NestedItems(n - 1) }

\* the depths at which the items are read: the top level, and those at
\* which an item of at most MaxNest levels reaches the ceiling or passes it
StartDepths == {0} \cup { recursionLimit - k : k \in 0..MaxNest } \cup { recursionLimit + 1 }

InitDepth ==
    /\ wire \in NestedItems(MaxNest)
    /\ val \in StartDepths
    /\ fn = "input"
    /\ res = IdleRes
    /\ ReaderIdle
    /\ PoolIdle
    /\ generatedStructs = {}

NextDepth ==
    \/ Apply("skip", skip(wire, val))
    \/ Apply("validateWellFormed", validateWellFormed(wire, val))
    \/ Apply("diagOneBuf", diagOneBuf(wire, val))
    \/ Apply("toJSON", toJSON(wire, val))

SpecDepth == InitDepth /\ [][NextDepth]_vars

\* the number of arrays, maps and tags around the most deeply nested item
\* of the item at the front of b, and the bytes after that item, for the
\* items of NestedItems
RECURSIVE Levels(_)
Levels(b) ==
    IF b[1] \in {1, 128} THEN [levels |-> 0, rest |-> Drop(b, 1)]
    ELSE IF b[1] \in {129, 198, 193} THEN
        With(Levels(Drop(b, 1)), LAMBDA x:
        [levels |-> x.levels + 1, rest |-> x.rest])
    ELSE \* 161
        With(Levels(Drop(b, 1)), LAMBDA k:
        With(Levels(k.rest), LAMBDA v:
        [levels |-> 1 + (IF k.levels > v.levels THEN k.levels ELSE v.levels),
         rest |-> v.rest]))

\* what each function returns for the item at the top level
AtTopLevel ==
    CASE fn = "skip" -> skip(wire, 0)
      [] fn = "validateWellFormed" -> validateWellFormed(wire, 0)
      [] fn = "diagOneBuf" -> diagOneBuf(wire, 0)
      [] fn = "toJSON" -> toJSON(wire, 0)

\* C14: Skip, the well-formedness check, the diagnostic rendering and the
\* JSON conversion return (evaluation ends on every input drawn), and on an
\* item that each accepts at the top level, each returns ErrMaxDepthExceeded
\* exactly when some item of it has more than recursionLimit arrays, maps
\* or tags around it, every tag counting as one level.
C14_DepthCeiling ==
    (fn # "input" /\ AtTopLevel.err = "nil") =>
        (res.err = "ErrMaxDepthExceeded") = (val + Levels(wire).levels > recursionLimit)


----------------------------------------------------------------------------
(* bytebufferpool.go, helpers.go, json_interop.go: the pooled buffers of   *)
(* DiagBytes and ToJSONBytes.  A ByteBuffer is the number i of its element *)
(* in buffers; the storage of a byte slice is 0 for an array of its own    *)
(* and i for the array of buffer i.  Each call is a process whose steps    *)
(* are the pool operations and the statements between them.                *)

\* calls that run at the same time
MaxCalls == 2

\* bbPool.Get() hands out any buffer of the pool or, the pool being free to
\* find none, a new one; bb.Reset() follows
GetByteBuffer(bb) ==
    \/ /\ bb \in bbPool
       /\ bbPool' = bbPool \ {bb}
       /\ buffers' = [buffers EXCEPT ![bb] = 0]
    \/ /\ bb = Len(buffers) + 1
       /\ bbPool' = bbPool
       /\ buffers' = Append(buffers, 0)

\* bb.Reset(); bbPool.Put(bb), the buffers being bufs before it
PutByteBuffer(bb, bufs) ==
    /\ buffers' = [bufs EXCEPT ![bb] = 0]
    /\ bbPool' = bbPool \cup {bb}

\* the slice returned is the buffer's own
copyOut_Alias(bb) == [storage |-> bb, len |-> buffers[bb]]

\* out := make([]byte, bb.Len()); copy(out, bb.Bytes())
copyOut(bb) == [storage |-> 0, len |-> buffers[bb]]

NoSlice == [storage |-> 0, len |-> 0]

top(held) == held[Len(held)]

\* the call c moves on as next describes
step(c, next) ==
    /\ calls' = [calls EXCEPT ![c] = next]
    /\ UNCHANGED <<readerVars, codecVars, generatedStructs>>

\* bb := GetByteBuffer() in DiagBytes and ToJSONBytes
CallGet(c) ==
    /\ calls[c].pc = "start"
    /\ \E bb \in 1..(Len(buffers) + 1) :
            /\ GetByteBuffer(bb)
            /\ step(c, [calls[c] EXCEPT !.pc = "run", !.held = <<bb>>, !.owed = 1])

\* toJSON at the header of a tag without a reader of its own:
\* vbuf := GetByteBuffer(), then toJSON(vbuf, o, depth+1)
CallGetNested(c) ==
    /\ calls[c].pc = "run"
    /\ calls[c].op = "ToJSONBytes"
    /\ Len(calls[c].in) > 0 /\ calls[c].in[1] = 198
    /\ \E bb \in 1..(Len(buffers) + 1) :
            /\ GetByteBuffer(bb)
            /\ step(c, [calls[c] EXCEPT !.held = Append(@, bb), !.owed = @ + 1,
                                        !.in = Drop(@, 1)])

\* the rest of the item is rendered into the innermost buffer
CallRender(c) ==
    /\ calls[c].pc = "run"
    /\ calls[c].op = "DiagBytes" \/ Len(calls[c].in) = 0 \/ calls[c].in[1] # 198
    /\ With(IF calls[c].op = "DiagBytes" THEN diagOneBuf(calls[c].in, 0)
            ELSE toJSON(calls[c].in, Len(calls[c].held) - 1), LAMBDA r:
            /\ buffers' = [buffers EXCEPT ![top(calls[c].held)] =
                              IF r.err = "nil" THEN Len(calls[c].in) - Len(r.rest) ELSE 0]
            /\ step(c, [calls[c] EXCEPT !.pc = "ret", !.err = r.err]))
    /\ UNCHANGED bbPool

\* toJSON(vbuf, o, depth+1) has returned to the tag branch: on success
\* buf.Write(vbuf.Bytes()) between the wrapper's text and then
\* PutByteBuffer(vbuf), on an error PutByteBuffer(vbuf); a panic leaves the
\* branch at once and vbuf is not put back
CallNestedReturn(c) ==
    /\ calls[c].pc = "ret"
    /\ Len(calls[c].held) > 1
    /\ LET held == calls[c].held IN
       IF calls[c].err = "panic" THEN
           /\ step(c, [calls[c] EXCEPT !.held = Take(held, Len(held) - 1)])
           /\ UNCHANGED <<bbPool, buffers>>
       ELSE
           /\ PutByteBuffer(top(held),
                  [buffers EXCEPT ![held[Len(held) - 1]] =
                      IF calls[c].err = "nil" THEN @ + buffers[top(held)] + 1 ELSE @])
           /\ step(c, [calls[c] EXCEPT !.held = Take(held, Len(held) - 1),
                                       !.owed = @ - 1])

\* DiagBytes and ToJSONBytes after diagOneBuf / toJSON: the copy that is
\* returned, or nothing on an error, and the deferred PutByteBuffer(bb),
\* which runs on every way out
CallReturn(c) ==
    /\ calls[c].pc = "ret"
    /\ Len(calls[c].held) = 1
    /\ PutByteBuffer(calls[c].held[1], buffers)
    /\ step(c, [calls[c] EXCEPT !.pc = "done", !.held = <<>>, !.owed = @ - 1,
                                !.out = IF calls[c].err = "nil"
                                        THEN copyOut(calls[c].held[1]) ELSE NoSlice])

NewCall(op, in) ==
    [op |-> op, in |-> in, pc |-> "start", held |-> <<>>, owed |-> 0,
     err |-> "nil", out |-> NoSlice]

\* renderings of the integer 1 and of a header cut short, conversions of
\* tag 6 around the integer 1, around a header cut short and around a map
\* whose one entry is missing
PoolCalls ==
    { NewCall("DiagBytes", <<1>>), NewCall("DiagBytes", <<24>>),
      NewCall("ToJSONBytes", <<198, 1>>), NewCall("ToJSONBytes", <<198, 24>>),
      NewCall("ToJSONBytes", <<198, 161>>) }

InitPool ==
    /\ calls \in [1..MaxCalls -> PoolCalls]
    /\ bbPool = {}
    /\ buffers = <<>>
    /\ CodecIdle
    /\ ReaderIdle
    /\ generatedStructs = {}

NextPool ==
    \E c \in 1..MaxCalls :
        \/ CallGet(c)
        \/ CallGetNested(c)
        \/ CallRender(c)
        \/ CallNestedReturn(c)
        \/ CallReturn(c)

SpecPool == InitPool /\ [][NextPool]_vars

\* the buffers that calls hold, with the call and the place in its stack
Holdings == { <<c, i>> : c \in 1..MaxCalls, i \in 1..2 }

HoldingsOf == { h \in Holdings : h[2] <= Len(calls[h[1]].held) }

HeldBuffers == { calls[h[1]].held[h[2]] : h \in HoldingsOf }

----------------------------------------------------------------------------
(* json_from.go: JSON to CBOR.  The value that json.Decoder yields is a    *)
(* record: [t |-> "nil"], a bool b, a json.Number with the int64 i its     *)
(* integer literal denotes, a string s (its UTF-8 bytes), a []any a, or a  *)
(* map[string]any m, the sequence of its entries [k, v] in the order in    *)
(* which range visits them.  A conversion returns [err, out].              *)

JNull == [t |-> "nil"]
JBool(x) == [t |-> "bool", b |-> x]
JNum(x) == [t |-> "json.Number", i |-> x]
JStr(x) == [t |-> "string", s |-> x]
JArr(x) == [t |-> "[]any", a |-> x]
JObj(x) == [t |-> "map[string]any", m |-> x]

\* the names of the wrapper keys
keyTag == <<36, 116, 97, 103>>              \* "$tag"
keyValue == <<36>>                          \* "$"
keyRfc3339 == <<36, 114, 102, 99, 51, 51, 51, 57>> \* "$rfc3339"
keyEpoch == <<36, 101, 112, 111, 99, 104>>  \* "$epoch"
keyDecimal == <<36, 100, 101, 99, 105, 109, 97, 108>> \* "$decimal"
keyBigfloat == <<36, 98, 105, 103, 102, 108, 111, 97, 116>> \* "$bigfloat"
keyBase64url == <<36, 98, 97, 115, 101, 54, 52, 117, 114, 108>> \* "$base64url"
keyBase64 == <<36, 98, 97, 115, 101, 54, 52>> \* "$base64"
keyBase16 == <<36, 98, 97, 115, 101, 49, 54>> \* "$base16"
keyCbor == <<36, 99, 98, 111, 114>>         \* "$cbor"
keyUri == <<36, 117, 114, 105>>             \* "$uri"
keyBase64urlstr == <<36, 98, 97, 115, 101, 54, 52, 117, 114, 108, 115, 116, 114>> \* "$base64urlstr"
keyBase64str == <<36, 98, 97, 115, 101, 54, 52, 115, 116, 114>> \* "$base64str"
keyRegex == <<36, 114, 101, 103, 101, 120>> \* "$regex"
keyMime == <<36, 109, 105, 109, 101>>       \* "$mime"
keyUuid == <<36, 117, 117, 105, 100>>       \* "$uuid"
keySelfdescribe == <<36, 115, 101, 108, 102, 100, 101, 115, 99, 114, 105, 98, 101>> \* "$selfdescribe"

\* _, ok := m[key] and m[key]
hasKey(m, key) == \E i \in 1..Len(m) : m[i].k = key
valueOf(m, key) == m[CHOOSE i \in 1..Len(m) : m[i].k = key].v

\* s, _ := v.(string)
asString(v) == IF v.t = "string" THEN v.s ELSE <<>>

Out(e, o) == [err |-> e, out |-> o]
Wrapped(o) == [out |-> o, ok |-> TRUE, err |-> "nil"]
WrapErr(b, e) == [out |-> b, ok |-> TRUE, err |-> e]

AppendNil(b) == b \o <<makeByte(majorTypeSimple, simpleNull)>>
AppendArrayHeader(b, sz) == appendUintCore(b, majorTypeArray, U64(sz))
AppendTag(b, tag) == appendUintCore(b, majorTypeTag, tag)
AppendTagged(b, tag, value) == AppendTag(b, tag) \o value

\* the time t is the text that t.Format(time.RFC3339Nano) writes
AppendRFC3339Time(b, t) == AppendString(AppendTag(b, U64(tagDateTimeString)), t)
\* a time of whole seconds: nsec == 0
AppendTime(b, sec) == AppendInt64(AppendTag(b, U64(tagEpochDateTime)), sec)
AppendBase64URLString(b, s) == AppendString(AppendTag(b, U64(tagBase64URLString)), s)
AppendBase64String(b, s) == AppendString(AppendTag(b, U64(tagBase64String)), s)
AppendURI(b, uri) == AppendString(AppendTag(b, U64(tagURI)), uri)
AppendEmbeddedCBOR(b, payload) == AppendBytes(AppendTag(b, U64(tagCBOR)), payload)
AppendUUID(b, uuid) == AppendBytes(AppendTag(b, U64(tagUUID)), uuid)
AppendRegexpString(b, re) == AppendString(AppendTag(b, U64(tagRegexp)), re)
AppendMIMEString(b, mime) == AppendString(AppendTag(b, U64(tagMIME)), mime)
AppendBase64URL(b, data) == AppendBytes(AppendTag(b, U64(tagBase64URL)), data)
AppendBase64(b, data) == AppendBytes(AppendTag(b, U64(tagBase64)), data)
AppendBase16(b, data) == AppendBytes(AppendTag(b, U64(tagBase16)), data)

\* the tag header and nothing after it
AppendSelfDescribeCBOR(b) == appendUintCore(b, majorTypeTag, U64(tagSelfDescribeCBOR))

\* a big.Int is the integer; modelled for integers of up to 9 digits, which
\* are written as CBOR integers
appendCBORIntegerFromBigInt(b, z) ==
    IF z >= 0 THEN AppendUint64(b, U64(z)) ELSE AppendInt64(b, Not64(U64(-z - 1)))

AppendDecimalFraction(b, exponent, mantissa) ==
    appendCBORIntegerFromBigInt(
        AppendInt64(AppendArrayHeader(AppendTag(b, U64(tagDecimalFrac)), 2), exponent),
        mantissa)

AppendBigfloat(b, exponent, mantissa) ==
    appendCBORIntegerFromBigInt(
        AppendInt64(AppendArrayHeader(AppendTag(b, U64(tagBigfloat)), 2), exponent),
        mantissa)

\* hex.DecodeString: [ok, bytes]
hexDigit(c) ==
    IF c >= 48 /\ c <= 57 THEN c - 48
    ELSE IF c >= 97 /\ c <= 102 THEN c - 87
    ELSE IF c >= 65 /\ c <= 70 THEN c - 55
    ELSE -1

RECURSIVE hexDecodeString(_)
hexDecodeString(s) ==
    IF Len(s) = 0 THEN [ok |-> TRUE, bytes |-> <<>>]
    ELSE IF Len(s) = 1 \/ hexDigit(s[1]) < 0 \/ hexDigit(s[2]) < 0
    THEN [ok |-> FALSE, bytes |-> <<>>]
    ELSE With(hexDecodeString(Drop(s, 2)), LAMBDA r:
         [ok |-> r.ok, bytes |-> <<hexDigit(s[1]) * 16 + hexDigit(s[2])>> \o r.bytes])

\* the value of a character in the base64 alphabet, the standard one or
\* the URL one, or -1
base64Value(c, url) ==
    IF c >= 65 /\ c <= 90 THEN c - 65
    ELSE IF c >= 97 /\ c <= 122 THEN c - 71
    ELSE IF c >= 48 /\ c <= 57 THEN c + 4
    ELSE IF c = (IF url THEN 45 ELSE 43) THEN 62
    ELSE IF c = (IF url THEN 95 ELSE 47) THEN 63
    ELSE -1

\* the bytes that two, three or four characters of values q stand for
base64Quantum(q) ==
    <<q[1] * 4 + q[2] \div 16>>
        \o (IF Len(q) > 2 THEN <<(q[2] % 16) * 16 + q[3] \div 4>> ELSE <<>>)
        \o (IF Len(q) > 3 THEN <<(q[3] % 4) * 64 + q[4]>> ELSE <<>>)

\* base64.StdEncoding.DecodeString (padded) and
\* base64.RawURLEncoding.DecodeString (url, not padded) on a text without
\* line breaks: [ok, bytes]
RECURSIVE base64Decode(_, _, _)
base64Decode(s, url, padded) ==
    IF Len(s) = 0 THEN [ok |-> TRUE, bytes |-> <<>>]
    ELSE LET last == Len(s) <= 4
             pad == IF ~padded \/ ~last \/ Len(s) < 4 THEN 0
                    ELSE IF s[4] # 61 THEN 0 ELSE IF s[3] # 61 THEN 1 ELSE 2
             n == IF last THEN Len(s) - pad ELSE 4
             q == [i \in 1..n |-> base64Value(s[i], url)]
         IN  IF (padded /\ Len(s) < 4) \/ n < 2 \/ \E i \in 1..n : q[i] < 0
             THEN [ok |-> FALSE, bytes |-> <<>>]
             ELSE With(base64Decode(Drop(s, 4), url, padded), LAMBDA r:
                  [ok |-> r.ok, bytes |-> base64Quantum(q) \o r.bytes])

\* new(big.Int).SetString(s, 10): an optional sign and decimal digits
RECURSIVE digitsValue(_, _)
digitsValue(s, acc) ==
    IF Len(s) = 0 THEN acc ELSE digitsValue(Drop(s, 1), acc * 10 + (s[1] - 48))

bigIntSetString(s) ==
    LET signed == Len(s) > 0 /\ s[1] \in {43, 45}
        digits == IF signed THEN Drop(s, 1) ELSE s
    IN  IF Len(digits) = 0 \/ \E i \in 1..Len(digits) : ~IsDigit(digits[i])
        THEN [ok |-> FALSE, z |-> 0]
        ELSE [ok |-> TRUE,
              z |-> IF signed /\ s[1] = 45 THEN -digitsValue(digits, 0)
                    ELSE digitsValue(digits, 0)]

\* regexp.Compile(s) succeeds; modelled for texts of letters, digits and
\* opening parentheses, where it fails on a parenthesis, which is not closed
regexpCompiles(s) == \A i \in 1..Len(s) : s[i] # 40

\* strings.ReplaceAll(s, "-", "")
RECURSIVE withoutHyphens(_)
withoutHyphens(s) ==
    IF Len(s) = 0 THEN <<>>
    ELSE (IF s[1] = 45 THEN <<>> ELSE <<s[1]>>) \o withoutHyphens(Drop(s, 1))

\* a json.Number that is an integer literal: t.Int64(), i < 0, uint64(i)
numToUint64(v) ==
    IF v.t # "json.Number" THEN [err |-> "errorString", u |-> Zero64]
    ELSE IF IsNeg64(v.i) THEN [err |-> "errorString", u |-> Zero64]
    ELSE [err |-> "nil", u |-> v.i]

anyToInt64(v) ==
    IF v.t # "json.Number" THEN [err |-> "errorString", i |-> Zero64]
    ELSE [err |-> "nil", i |-> v.i]

RECURSIVE jsonToCBOR(_, _)
RECURSIVE tryWrapper(_, _)
RECURSIVE jsonElements(_, _, _)
RECURSIVE jsonEntries(_, _, _)

\* for _, e := range x { b, err = jsonToCBOR(b, e) ... }, from element i
jsonElements(b, x, i) ==
    IF i > Len(x) THEN Out("nil", b)
    ELSE With(jsonToCBOR(b, x[i]), LAMBDA r:
         IF r.err # "nil" THEN r ELSE jsonElements(r.out, x, i + 1))

\* for k, vv := range x { b = AppendString(b, k); b, err = jsonToCBOR(b, vv) ... }
jsonEntries(b, x, i) ==
    IF i > Len(x) THEN Out("nil", b)
    ELSE With(jsonToCBOR(AppendString(b, x[i].k), x[i].v), LAMBDA r:
         IF r.err # "nil" THEN r ELSE jsonEntries(r.out, x, i + 1))

\* the branch of one wrapper whose payload is a text that must not be empty
nonEmptyText(b, v, written) ==
    IF asString(v) = <<>> THEN WrapErr(b, "errorString") ELSE Wrapped(written)

decimalWrapper(b, v, tagged(_, _, _)) ==
    IF v.t # "[]any" \/ Len(v.a) # 2 THEN WrapErr(b, "errorString")
    ELSE IF anyToInt64(v.a[1]).err # "nil" THEN WrapErr(b, anyToInt64(v.a[1]).err)
    ELSE IF v.a[2].t # "string" THEN WrapErr(b, "errorString")
    ELSE IF ~bigIntSetString(v.a[2].s).ok THEN WrapErr(b, "errorString")
    ELSE Wrapped(tagged(b, anyToInt64(v.a[1]).i, bigIntSetString(v.a[2].s).z))

bytesWrapper(b, dec, written(_, _)) ==
    IF ~dec.ok THEN WrapErr(b, "CorruptInputError") ELSE Wrapped(written(b, dec.bytes))

tryWrapper(b, m) ==
    IF hasKey(m, keyTag) THEN
        IF ~hasKey(m, keyValue) THEN WrapErr(b, "errorString")
        ELSE With(numToUint64(valueOf(m, keyTag)), LAMBDA tag:
             IF tag.err # "nil" THEN WrapErr(b, tag.err)
             ELSE With(jsonToCBOR(<<>>, valueOf(m, keyValue)), LAMBDA inner:
                  IF inner.err # "nil" THEN WrapErr(b, inner.err)
                  ELSE Wrapped(AppendTagged(b, tag.u, inner.out))))
    ELSE IF hasKey(m, keyRfc3339) THEN
        With(asString(valueOf(m, keyRfc3339)), LAMBDA s:
        IF s = <<>> THEN WrapErr(b, "errorString")
        ELSE IF ~rfc3339Parses(s) THEN WrapErr(b, "ParseError")
        ELSE Wrapped(AppendRFC3339Time(b, s)))
    ELSE IF hasKey(m, keyEpoch) THEN
        \* an integer literal: f is whole, ns == 0
        With(valueOf(m, keyEpoch), LAMBDA v:
        IF v.t # "json.Number" THEN WrapErr(b, "errorString")
        ELSE Wrapped(AppendTime(b, v.i)))
    ELSE IF hasKey(m, keyDecimal) THEN
        decimalWrapper(b, valueOf(m, keyDecimal), AppendDecimalFraction)
    ELSE IF hasKey(m, keyBigfloat) THEN
        decimalWrapper(b, valueOf(m, keyBigfloat), AppendBigfloat)
    ELSE IF hasKey(m, keyBase64url) THEN
        bytesWrapper(b, base64Decode(asString(valueOf(m, keyBase64url)), TRUE, FALSE),
                     AppendBase64URL)
    ELSE IF hasKey(m, keyBase64) THEN
        bytesWrapper(b, base64Decode(asString(valueOf(m, keyBase64)), FALSE, TRUE),
                     AppendBase64)
    ELSE IF hasKey(m, keyBase16) THEN
        bytesWrapper(b, hexDecodeString(asString(valueOf(m, keyBase16))), AppendBase16)
    ELSE IF hasKey(m, keyCbor) THEN
        bytesWrapper(b, base64Decode(asString(valueOf(m, keyCbor)), FALSE, TRUE),
                     AppendEmbeddedCBOR)
    ELSE IF hasKey(m, keyUri) THEN
        nonEmptyText(b, valueOf(m, keyUri), AppendURI(b, asString(valueOf(m, keyUri))))
    ELSE IF hasKey(m, keyBase64urlstr) THEN
        Wrapped(AppendBase64URLString(b, asString(valueOf(m, keyBase64urlstr))))
    ELSE IF hasKey(m, keyBase64str) THEN
        Wrapped(AppendBase64String(b, asString(valueOf(m, keyBase64str))))
    ELSE IF hasKey(m, keyRegex) THEN
        With(asString(valueOf(m, keyRegex)), LAMBDA s:
        IF s = <<>> THEN WrapErr(b, "errorString")
        ELSE IF ~regexpCompiles(s) THEN WrapErr(b, "syntax.Error")
        ELSE Wrapped(AppendRegexpString(b, s)))
    ELSE IF hasKey(m, keyMime) THEN
        nonEmptyText(b, valueOf(m, keyMime), AppendMIMEString(b, asString(valueOf(m, keyMime))))
    ELSE IF hasKey(m, keyUuid) THEN
        With(asString(valueOf(m, keyUuid)), LAMBDA s:
        IF Len(s) # 36 THEN WrapErr(b, "errorString")
        ELSE With(hexDecodeString(withoutHyphens(s)), LAMBDA bs:
             IF ~bs.ok \/ Len(bs.bytes) # 16 THEN WrapErr(b, "errorString")
             ELSE Wrapped(AppendUUID(b, bs.bytes))))
    ELSE IF hasKey(m, keySelfdescribe) THEN
        With(valueOf(m, keySelfdescribe), LAMBDA v:
        IF ~(v.t = "bool" /\ v.b) THEN WrapErr(b, "errorString")
        ELSE Wrapped(AppendSelfDescribeCBOR(b)))
    ELSE [out |-> b, ok |-> FALSE, err |-> "nil"]

\* a json.Number is an integer literal that x.Int64() reads
jsonToCBOR(b, v) ==
    CASE v.t = "nil" -> Out("nil", AppendNil(b))
      [] v.t = "bool" -> Out("nil", AppendBool(b, v.b))
      [] v.t = "json.Number" -> Out("nil", AppendInt64(b, v.i))
      [] v.t = "string" -> Out("nil", AppendString(b, v.s))
      [] v.t = "[]any" -> jsonElements(AppendArrayHeader(b, Len(v.a)), v.a, 1)
      [] v.t = "map[string]any" ->
            With(tryWrapper(b, v.m), LAMBDA w:
            IF w.ok \/ w.err # "nil" THEN Out(w.err, w.out)
            ELSE jsonEntries(AppendMapHeader(b, Len(v.m)), v.m, 1))
      [] OTHER -> Out("ErrUnsupportedType", b)

\* the value v is what dec.Decode(&v) has made of the JSON text
FromJSONBytes(v) == jsonToCBOR(<<>>, v)


----------------------------------------------------------------------------
(* JSON values converted to CBOR, and the result checked and converted     *)
(* back.                                                                   *)

UuidText == <<48, 48, 49, 49, 50, 50, 51, 51, 45, 52, 52, 53, 53, 45, 54, 54, 55, 55, 45, 56, 56, 57, 57, 45, 97, 97, 98, 98, 99, 99, 100, 100, 101, 101, 102, 102>>   \* "00112233-4455-6677-8899-aabbccddeeff"

\* null, the booleans, 1, 2, 6 and -1, and the texts "", "x", "ab", "AQ==",
\* "(", a date and time and a UUID
JSONScalars ==
    { JNull, JBool(TRUE), JBool(FALSE),
      JNum(U64(1)), JNum(U64(2)), JNum(U64(6)), JNum(Not64(U64(0))),
      JStr(<<>>), JStr(<<120>>), JStr(<<97, 98>>), JStr(<<65, 81, 61, 61>>), JStr(<<40>>),
      JStr(Rfc3339Text), JStr(UuidText) }

\* what a wrapper key is given: a scalar, [1, "5"], [1, "x"] or [1]
JSONPayloads ==
    JSONScalars \cup { JArr(<<JNum(U64(1)), JStr(<<53>>)>>),
                       JArr(<<JNum(U64(1)), JStr(<<120>>)>>), JArr(<<JNum(U64(1))>>) }

\* the closed set of wrapper keys
WrapperKeys ==
    { keyRfc3339, keyEpoch, keyDecimal, keyBigfloat, keyBase64url, keyBase64, keyBase16,
      keyCbor, keyUri, keyBase64urlstr, keyBase64str, keyRegex, keyMime, keyUuid,
      keySelfdescribe }

\* objects of one entry, under a wrapper key, "$tag", "$" or "a"; objects
\* of two entries in both orders; arrays of two scalars; and an object in
\* an array and in an object
JSONValues ==
    JSONScalars
        \cup { JObj(<<[k |-> key, v |-> p]>>) :
                    key \in WrapperKeys \cup {keyTag, keyValue, <<97>>}, p \in JSONPayloads }
        \cup { JObj(<<[k |-> k1, v |-> p1], [k |-> k2, v |-> p2]>>) :
                    k1 \in {keyTag, keyValue, keyUri, keySelfdescribe, <<97>>},
                    k2 \in {keyTag, keyValue, keyUri, <<97>>, <<98>>},
                    p1 \in {JNum(U64(1)), JNum(U64(2)), JNum(U64(6)), JBool(TRUE)},
                    p2 \in {JNum(U64(1)), JStr(<<120>>), JBool(TRUE)} }
        \cup { JArr(<<x, y>>) : x \in {JNull, JNum(U64(1))}, y \in {JStr(<<120>>), JBool(FALSE)} }
        \cup { JArr(<<JObj(<<[k |-> keyUri, v |-> JStr(<<120>>)]>>)>>),
               JObj(<<[k |-> <<97>>, v |-> JObj(<<[k |-> keyMime, v |-> JStr(<<120>>)]>>)]>>) }

\* the keys of an object are different
DistinctKeys(v) ==
    v.t = "map[string]any" => \A i, j \in 1..Len(v.m) : v.m[i].k = v.m[j].k => i = j

InitJSON ==
    /\ fn = "json" /\ val \in { v \in JSONValues : DistinctKeys(v) } /\ wire = <<>>
    /\ res = IdleRes
    /\ ReaderIdle
    /\ PoolIdle
    /\ generatedStructs = {}

\* FromJSONBytes on the value drawn: the bytes and the error it returns
Convert(r) ==
    /\ fn = "json"
    /\ fn' = "FromJSONBytes"
    /\ wire' = r.out
    /\ res' = Res(r.err, NoVal, <<>>)
    /\ UNCHANGED <<val, readerVars, poolVars, generatedStructs>>

NextJSON ==
    \/ Convert(FromJSONBytes(val))
    \/ res.err = "nil" /\ Decode("FromJSONBytes", "ValidateWellFormedBytes",
                                 ValidateWellFormedBytes(wire))
    \/ res.err = "nil" /\ Decode("FromJSONBytes", "ToJSONBytes", ToJSONBytes(wire))

SpecJSON == InitJSON /\ [][NextJSON]_vars

\* an object of one entry whose key is in the closed set, or of the two
\* entries "$tag" and "$"
IsWrapperShape(v) ==
    /\ v.t = "map[string]any"
    /\ \/ Len(v.m) = 1 /\ v.m[1].k \in WrapperKeys
       \/ Len(v.m) = 2 /\ { v.m[1].k, v.m[2].k } = { keyTag, keyValue }

\* the entries of m from entry i on, each as a text key and its value
RECURSIVE PlainEntries(_, _)
PlainEntries(m, i) ==
    IF i > Len(m) THEN <<>>
    ELSE AppendString(<<>>, m[i].k) \o jsonToCBOR(<<>>, m[i].v).out \o PlainEntries(m, i + 1)

\* C16: an object that has neither exactly one key from the closed wrapper
\* set nor exactly the two keys "$tag" and "$" is written as a CBOR map of
\* all its entries under text keys (its values being convertible).
C16_OnlyWrapperShapesAreWrappers ==
    (/\ fn = "FromJSONBytes"
     /\ val.t = "map[string]any"
     /\ ~IsWrapperShape(val)
     /\ \A i \in 1..Len(val.m) : jsonToCBOR(<<>>, val.m[i].v).err = "nil") =>
        /\ res.err = "nil"
        /\ wire = AppendMapHeader(<<>>, Len(val.m)) \o PlainEntries(val.m, 1)

\* C17: the bytes FromJSONBytes returns without an error are one
\* well-formed item: the well-formedness check accepts them and nothing is
\* left after the item.
C17_OutputIsOneWellFormedItem ==
    fn = "ValidateWellFormedBytes" => res.err = "nil" /\ res.rest = <<>>

\* C18 (that the conversion back succeeds): for a wrapper object that
\* FromJSONBytes accepts, ToJSONBytes accepts the bytes written and reads
\* all of them.
C18_WrappersConvertBack ==
    (fn = "ToJSONBytes" /\ IsWrapperShape(val)) => res.err = "nil" /\ res.rest = <<>>

----------------------------------------------------------------------------
(* number.go: the Number sum type.  A Number is its kind typ and its 64    *)
(* bits; a float32 occupies the low 32 bits.                               *)

InvalidType == "InvalidType"
StrType == "StrType"
BinType == "BinType"
MapType == "MapType"
ArrayType == "ArrayType"
Float64Type == "Float64Type"
Float32Type == "Float32Type"
BoolType == "BoolType"
IntType == "IntType"
UintType == "UintType"
NilType == "NilType"
ExtensionType == "ExtensionType"

\* both float widths are reported as Float64Type
getType(b) ==
    LET major == getMajorType(b) IN
    IF major = majorTypeUint THEN UintType
    ELSE IF major = majorTypeNegInt THEN IntType
    ELSE IF major = majorTypeBytes THEN BinType
    ELSE IF major = majorTypeText THEN StrType
    ELSE IF major = majorTypeArray THEN ArrayType
    ELSE IF major = majorTypeMap THEN MapType
    ELSE IF major = majorTypeTag THEN ExtensionType
    ELSE LET addInfo == getAddInfo(b) IN
         IF addInfo \in {simpleTrue, simpleFalse} THEN BoolType
         ELSE IF addInfo = simpleNull THEN NilType
         ELSE IF addInfo \in {simpleFloat32, simpleFloat64} THEN Float64Type
         ELSE InvalidType

NextType(b) == IF Len(b) = 0 THEN InvalidType ELSE getType(b[1])

Number(t, u) == [typ |-> t, bits |-> u]

\* the zero value of the struct
ZeroNumber == Number(InvalidType, Zero64)

AsInt(i) == IF i = Zero64 THEN Number(InvalidType, Zero64) ELSE Number(IntType, i)
AsUint(u) == Number(UintType, u)
AsFloat32(f) == Number(Float32Type, Pad8(f))
AsFloat64(f) == Number(Float64Type, f)

Type(n) == IF n.typ = InvalidType THEN IntType ELSE n.typ

\* math.Float32frombits(uint32(n.bits)): the low four bytes
MarshalCBOR(n, b) ==
    IF n.typ = IntType THEN AppendInt64(b, n.bits)
    ELSE IF n.typ = UintType THEN AppendUint64(b, n.bits)
    ELSE IF n.typ = Float64Type THEN AppendFloat64(b, n.bits)
    ELSE IF n.typ = Float32Type THEN AppendFloat32(b, SubSeq(n.bits, 5, 8))
    ELSE AppendInt64(b, Zero64)

\* decodes into n; val is the receiver afterwards
UnmarshalCBOR(n, b) ==
    With(NextType(b), LAMBDA typ:
    IF typ = IntType THEN
        With(ReadInt64Bytes(b), LAMBDA r:
        IF r.err # "nil" THEN Res(r.err, n, b) ELSE Res("nil", AsInt(r.val), r.rest))
    ELSE IF typ = UintType THEN
        With(ReadUint64Bytes(b), LAMBDA r:
        IF r.err # "nil" THEN Res(r.err, n, b) ELSE Res("nil", AsUint(r.val), r.rest))
    ELSE IF typ = Float64Type THEN
        With(ReadFloat64Bytes(b), LAMBDA r:
        IF r.err # "nil" THEN Res(r.err, n, b) ELSE Res("nil", AsFloat64(r.val), r.rest))
    ELSE IF typ = Float32Type THEN
        With(ReadFloat32Bytes(b), LAMBDA r:
        IF r.err # "nil" THEN Res(r.err, n, b) ELSE Res("nil", AsFloat32(r.val), r.rest))
    ELSE Res("ErrUnsupportedType", n, b))

\* float32 payloads: zeros, subnormals, normals, infinities and NaNs
Float32Payloads ==
    { F32(s, e, m) : s \in {0, 1}, e \in {0, 1, 127, 254, 255}, m \in {0, 1, 4194304} }

\* float64 payloads: every pattern of IntValues is the bits of some float64
Numbers ==
    { AsInt(i) : i \in IntValues } \cup { AsUint(u) : u \in IntValues }
        \cup { AsFloat32(f) : f \in Float32Payloads }
        \cup { AsFloat64(f) : f \in IntValues }

InitNumber ==
    /\ fn = "number" /\ val \in Numbers
    /\ wire = <<>>
    /\ res = IdleRes
    /\ ReaderIdle
    /\ PoolIdle
    /\ generatedStructs = {}

NextNumber ==
    \/ Encode("number", "MarshalCBOR", MarshalCBOR(val, <<>>))
    \/ Decode("MarshalCBOR", "UnmarshalCBOR", UnmarshalCBOR(ZeroNumber, wire))

SpecNumber == InitNumber /\ [][NextNumber]_vars

\* C19: marshalling a Number and unmarshalling the bytes written succeeds,
\* leaves no remainder and gives a Number of the same kind with the same
\* value.
C19_NumberRoundTrip ==
    fn = "UnmarshalCBOR" =>
        /\ res.err = "nil"
        /\ res.rest = <<>>
        /\ Type(res.val) = Type(val)
        /\ res.val.bits = val.bits

----------------------------------------------------------------------------
(* cborgen: the omit-empty condition of a struct field.  A field type is   *)
(* its syntax node; the condition is the text a template writes, kept as   *)
(* the operand and the test applied to it.                                 *)

Ident(name) == [node |-> "Ident", Name |-> name]
SelectorExpr(x, sel) == [node |-> "SelectorExpr", X |-> x, Sel |-> sel]
StarExpr == [node |-> "StarExpr"]
InterfaceType == [node |-> "InterfaceType"]
\* Len is "nil" for a slice
ArrayTypeExpr(len) == [node |-> "ArrayType", Len |-> len]
MapTypeExpr == [node |-> "MapType"]

NumericNames ==
    {"int", "int8", "int16", "int32", "int64", "uint", "uint8", "uint16", "uint32",
     "uint64", "float32", "float64", "byte", "rune"}

\* zero_check.go.tpl, template "zeroCheck"
zeroCheck(data) ==
    LET operand == <<data.Receiver, data.Field>> IN
    IF data.Kind = "string" THEN [operand |-> operand, test |-> "== \"\""]
    ELSE IF data.Kind = "bool" THEN [operand |-> operand, test |-> "!"]
    ELSE IF data.Kind = "numeric" THEN [operand |-> operand, test |-> "== 0"]
    ELSE IF data.Kind = "time" THEN [operand |-> operand, test |-> ".IsZero()"]
    ELSE IF data.Kind = "ptrOrInterface" THEN [operand |-> operand, test |-> "== nil"]
    ELSE IF data.Kind \in {"slice", "map"} THEN [operand |-> operand, test |-> "len() == 0"]
    ELSE ""

\* the templates ParseFS finds in zero_check.go.tpl, under the root
\* template "omit_empty_cond"
omitEmptyCondTemplate == {"omit_empty_cond", "zero_check.go.tpl", "zeroCheck"}

\* text/template: executing a name the set does not define is an error
ExecuteTemplate(t, name, data) ==
    IF name \notin t THEN [err |-> "no template", out |-> ""]
    ELSE IF name = "zeroCheck" THEN [err |-> "nil", out |-> zeroCheck(data)]
    ELSE [err |-> "nil", out |-> ""]

omitEmptyKind(typ) ==
    IF typ.node = "Ident" THEN
        IF typ.Name = "string" THEN "string"
        ELSE IF typ.Name = "bool" THEN "bool"
        ELSE IF typ.Name \in NumericNames THEN "numeric"
        ELSE ""
    ELSE IF typ.node = "SelectorExpr" THEN
        IF typ.Sel = "Time" THEN "time"
        ELSE IF typ.Sel = "Duration" THEN "numeric"
        ELSE ""
    ELSE IF typ.node \in {"StarExpr", "InterfaceType"} THEN "ptrOrInterface"
    ELSE IF typ.node = "ArrayType" THEN IF typ.Len = "nil" THEN "slice" ELSE ""
    ELSE IF typ.node = "MapType" THEN "map"
    ELSE ""

omitEmptyCondExpr(goName, typ) ==
    LET kind == omitEmptyKind(typ) IN
    IF kind = "" THEN [expr |-> "", ok |-> FALSE]
    ELSE With(ExecuteTemplate(omitEmptyCondTemplate, "omitEmptyCond",
                              [Receiver |-> "x", Field |-> goName, Kind |-> kind]),
              LAMBDA r:
         IF r.err # "nil" THEN [expr |-> "", ok |-> FALSE]
         ELSE IF r.out = "" THEN [expr |-> "", ok |-> FALSE]
         ELSE [expr |-> r.out, ok |-> TRUE])

\* ast.IsExported on the field names used here
IsExported(name) == name \in {"Name", "F", "Skipped"}

\* generateStructCode, the body of the loop for one field: the omitempty
\* option of the tag is kept only when a condition could be built
fieldSpecOf(f) ==
    IF f.OmitEmpty THEN
        With(omitEmptyCondExpr(f.GoName, f.Type), LAMBDA c:
        IF c.ok
        THEN [GoName |-> f.GoName, CBORName |-> f.CBORName, OmitEmpty |-> TRUE,
              OmitEmptyCond |-> c.expr]
        ELSE [GoName |-> f.GoName, CBORName |-> f.CBORName, OmitEmpty |-> FALSE,
              OmitEmptyCond |-> ""])
    ELSE [GoName |-> f.GoName, CBORName |-> f.CBORName, OmitEmpty |-> FALSE,
          OmitEmptyCond |-> ""]

\* generateStructCode, the loop over the declared fields: unexported and
\* ignored fields are passed over, the others give ss.Fields
RECURSIVE structFields(_, _)
structFields(fields, i) ==
    IF i > Len(fields) THEN <<>>
    ELSE IF ~IsExported(fields[i].GoName) \/ fields[i].Ignore THEN structFields(fields, i + 1)
    ELSE <<fieldSpecOf(fields[i])>> \o structFields(fields, i + 1)

generateStructCode(fields) == structFields(fields, 1)

\* ss.NonOmitCount counting every field kept or not
NonOmitCount_Declared(fields, fs) == Len(fields)

\* ss.NonOmitCount: one for each field of ss.Fields that is not omit-empty
NonOmitCount(fields, fs) == Cardinality({i \in DOMAIN fs : ~fs[i].OmitEmpty})

----------------------------------------------------------------------------
(* Go values of a field and the emitted marshal.                           *)

\* the Unix seconds of the zero time.Time, January 1 of year 1
zeroTimeUnix == <<255, 255, 255, 241, 136, 110, 9, 0>>

GoNil == [t |-> "nil"]
GoString(s) == [t |-> "string", s |-> s]
GoBool(v) == [t |-> "bool", b |-> v]
GoInt(i) == [t |-> "int", i |-> i]
GoFloat(f) == [t |-> "float", f |-> f]
GoTime(sec) == [t |-> "time", sec |-> sec]
GoPointer(to) == [t |-> "pointer", to |-> to]
GoIface(v) == [t |-> "interface", v |-> v]
GoSlice(n) == [t |-> "slice", n |-> n]
GoMap(n) == [t |-> "map", n |-> n]
GoArray == [t |-> "array"]

\* the value of a condition on a field value, as Go evaluates it
evalCond(cond, v) ==
    IF cond.test = "== \"\"" THEN v.s = <<>>
    ELSE IF cond.test = "!" THEN ~v.b
    ELSE IF cond.test = "== 0" THEN
        IF v.t = "float" THEN F64Exp(v.f) = 0 /\ F64Mant23(v.f) = 0 /\ F64Rest29(v.f) = 0
        ELSE v.i = Zero64
    ELSE IF cond.test = ".IsZero()" THEN v.sec = zeroTimeUnix
    ELSE IF cond.test = "== nil" THEN v.t = "nil"
    ELSE IF v.t = "nil" THEN TRUE ELSE v.n = 0

\* the item written for a field value
RECURSIVE appendValue(_, _)
appendValue(b, v) ==
    IF v.t = "nil" THEN AppendNil(b)
    ELSE IF v.t = "string" THEN AppendString(b, v.s)
    ELSE IF v.t = "bool" THEN AppendBool(b, v.b)
    ELSE IF v.t = "int" THEN AppendInt64(b, v.i)
    ELSE IF v.t = "float" THEN AppendFloat64(b, v.f)
    ELSE IF v.t = "time" THEN AppendTime(b, v.sec)
    ELSE IF v.t = "pointer" THEN appendValue(b, v.to)
    ELSE IF v.t = "interface" THEN appendValue(b, v.v)
    ELSE IF v.t = "slice" THEN AppendArrayHeader(b, v.n) \o Rep(1, v.n)
    ELSE IF v.t = "map" THEN AppendMapHeader(b, v.n) \o Rep(1, 2 * v.n)
    ELSE AppendArrayHeader(b, 1) \o <<0>>

\* a field is left out when it is omit-empty and its condition says empty
omitted(fs, x, i) == fs[i].OmitEmpty /\ evalCond(fs[i].OmitEmptyCond, x[fs[i].GoName])

RECURSIVE appendFields(_, _, _, _)
appendFields(b, fs, x, i) ==
    IF i > Len(fs) THEN b
    ELSE IF omitted(fs, x, i) THEN appendFields(b, fs, x, i + 1)
    ELSE appendFields(appendValue(AppendString(b, fs[i].CBORName), x[fs[i].GoName]),
                      fs, x, i + 1)

\* the emitted MarshalCBOR of a struct: the header carries ss.NonOmitCount
\* plus one for each omit-empty field found not empty, then the entries
\* follow in field order
emittedMarshalCBOR(fields, fs, x, b) ==
    appendFields(AppendMapHeader(b, NonOmitCount(fields, fs)
                     + Cardinality({i \in DOMAIN fs : fs[i].OmitEmpty /\ ~omitted(fs, x, i)})),
                 fs, x, 1)

----------------------------------------------------------------------------
(* A struct of a plain field and a field of each type, tagged              *)
(* `cbor:"f,omitempty"` or `cbor:"f"`.                                     *)

keyName == <<110, 97, 109, 101>>
keyF == <<102>>

OmitTypes ==
    { Ident(n) : n \in {"string", "bool", "any"} \cup NumericNames }
        \cup { SelectorExpr("time", "Time"), SelectorExpr("time", "Duration"),
               StarExpr, InterfaceType, ArrayTypeExpr("nil"), ArrayTypeExpr("4"), MapTypeExpr }

\* what kind of type the syntax denotes
typeKind(typ) ==
    IF typ.node = "Ident" THEN IF typ.Name = "any" THEN "interface" ELSE "scalar"
    ELSE IF typ.node = "SelectorExpr" THEN IF typ.Sel = "Time" THEN "time" ELSE "scalar"
    ELSE IF typ.node = "StarExpr" THEN "pointer"
    ELSE IF typ.node = "InterfaceType" THEN "interface"
    ELSE IF typ.node = "ArrayType" THEN IF typ.Len = "nil" THEN "slice" ELSE "array"
    ELSE "map"

GoValues(typ) ==
    IF typ.node = "Ident" /\ typ.Name = "string" THEN {GoString(<<>>), GoString(<<66>>)}
    ELSE IF typ.node = "Ident" /\ typ.Name = "bool" THEN {GoBool(FALSE), GoBool(TRUE)}
    ELSE IF typ.node = "Ident" /\ typ.Name \in {"float32", "float64"} THEN
        {GoFloat(F64(0, 0, 0, 0)), GoFloat(F64(1, 0, 0, 0)), GoFloat(F64(0, 1023, 0, 0)),
         GoFloat(F64(0, 0, 0, 1)), GoFloat(F64(0, 2047, 1, 0))}
    ELSE IF typeKind(typ) = "scalar" THEN {GoInt(Zero64), GoInt(U64(1)), GoInt(U64(255))}
    ELSE IF typeKind(typ) = "time" THEN {GoTime(zeroTimeUnix), GoTime(Zero64), GoTime(U64(1))}
    ELSE IF typeKind(typ) = "pointer" THEN {GoNil, GoPointer(GoInt(Zero64)), GoPointer(GoInt(U64(1)))}
    ELSE IF typeKind(typ) = "interface" THEN {GoNil, GoIface(GoInt(Zero64)), GoIface(GoString(<<>>))}
    ELSE IF typeKind(typ) = "slice" THEN {GoNil, GoSlice(0), GoSlice(1)}
    ELSE IF typeKind(typ) = "map" THEN {GoNil, GoMap(0), GoMap(1)}
    ELSE {GoArray}

\* the type's empty value: 0, false, "", the zero time, zero length, null
IsEmptyValue(v) ==
    IF v.t = "nil" THEN TRUE
    ELSE IF v.t = "string" THEN v.s = <<>>
    ELSE IF v.t = "bool" THEN ~v.b
    ELSE IF v.t = "int" THEN v.i = Zero64
    ELSE IF v.t = "float" THEN F64Exp(v.f) = 0 /\ F64Mant23(v.f) = 0 /\ F64Rest29(v.f) = 0
    ELSE IF v.t = "time" THEN v.sec = zeroTimeUnix
    ELSE IF v.t \in {"slice", "map"} THEN v.n = 0
    ELSE FALSE

\* Skipped is tagged `cbor:"-"` and hidden is not exported
StructFields(typ, omit) ==
    << [GoName |-> "Name", CBORName |-> keyName, Type |-> Ident("string"),
        OmitEmpty |-> FALSE, Ignore |-> FALSE],
       [GoName |-> "Skipped", CBORName |-> <<45>>, Type |-> Ident("int"),
        OmitEmpty |-> FALSE, Ignore |-> TRUE],
       [GoName |-> "F", CBORName |-> keyF, Type |-> typ, OmitEmpty |-> omit, Ignore |-> FALSE],
       [GoName |-> "hidden", CBORName |-> <<104>>, Type |-> Ident("int"),
        OmitEmpty |-> omit, Ignore |-> FALSE] >>

\* the field F as declared
FieldF == val.fields[3]

InitOmit ==
    /\ fn = "struct"
    /\ \E typ \in OmitTypes, omit \in BOOLEAN :
           \E v \in GoValues(typ) :
               val = [fields |-> StructFields(typ, omit),
                      x |-> [Name |-> GoString(<<66, 111, 98>>), Skipped |-> GoInt(U64(1)),
                             F |-> v, hidden |-> GoInt(Zero64)]]
    /\ wire = <<>>
    /\ res = IdleRes
    /\ ReaderIdle
    /\ PoolIdle
    /\ generatedStructs = {}

\* cborgen run on the struct: res.val holds the field specs
Generate ==
    /\ fn = "struct"
    /\ res' = Res("nil", generateStructCode(val.fields), <<>>)
    /\ fn' = "generateStructCode"
    /\ UNCHANGED <<val, wire, readerVars, poolVars, generatedStructs>>

\* the emitted marshal applied to the value, on an empty buffer
Marshal ==
    /\ fn = "generateStructCode"
    /\ wire' = emittedMarshalCBOR(val.fields, res.val, val.x, <<>>)
    /\ fn' = "emittedMarshalCBOR"
    /\ UNCHANGED <<val, res, readerVars, poolVars, generatedStructs>>

NextOmit == Generate \/ Marshal

SpecOmit == InitOmit /\ [][NextOmit]_vars

\* the keys of the encoded map, read as TestPersonOmitEmptyAge reads them
RECURSIVE readKeys(_, _)
readKeys(b, n) ==
    IF n = 0 THEN {}
    ELSE With(ReadStringBytes(b), LAMBDA k:
         IF k.err # "nil" THEN {}
         ELSE {k.val} \cup readKeys(Skip(k.rest).rest, n - 1))

EncodedKeys(b) ==
    With(ReadMapHeaderBytes(b), LAMBDA h: IF h.err # "nil" THEN {} ELSE readKeys(h.rest, Nat64(h.val)))

\* C20: for a field marked omit-empty whose type is a scalar, a time, a
\* slice, a map, a pointer or an interface, the emitted marshal leaves the
\* field's entry out of the map exactly when the value is the type's empty
\* value.
C20_OmittedIffEmpty ==
    (/\ fn = "emittedMarshalCBOR"
     /\ FieldF.OmitEmpty
     /\ typeKind(FieldF.Type) # "array") =>
        ((keyF \notin EncodedKeys(wire)) <=> IsEmptyValue(val.x.F))

\* the number of key/value entries that follow a map header, each read as
\* TestPersonOmitEmptyAge reads it: a text key, then one skipped item
RECURSIVE countEntries(_)
countEntries(b) ==
    IF b = <<>> THEN 0
    ELSE With(ReadStringBytes(b), LAMBDA k:
         IF k.err # "nil" THEN -1
         ELSE With(Skip(k.rest), LAMBDA v:
              IF v.err # "nil" THEN -1
              ELSE With(countEntries(v.rest), LAMBDA n: IF n < 0 THEN -1 ELSE n + 1)))

----------------------------------------------------------------------------
(* decode_case.go.tpl: the decode cases of a map[uint64]uint64 field.  A   *)
(* Go map is nil or a set of <<key, value>> pairs with distinct keys.      *)

GoMapOf(pairs) == [t |-> "map", m |-> pairs]

\* x[key] = val
mapAssign(m, key, v) == {p \in m : p[1] # key} \cup {<<key, v>>}

\* for i := uint32(0); i < sz; i++ { key, val := ReadUint64Bytes twice; x[key] = val }
\* (an assignment into a nil map panics; sz is 0 when the map is nil here)
RECURSIVE readUint64Pairs(_, _, _)
readUint64Pairs(m, v, n) ==
    IF n = 0 THEN Res("nil", m, v)
    ELSE With(ReadUint64Bytes(v), LAMBDA k:
         IF k.err # "nil" THEN Res(k.err, m, v)
         ELSE With(ReadUint64Bytes(k.rest), LAMBDA w:
              IF w.err # "nil" THEN Res(w.err, m, v)
              ELSE readUint64Pairs(mapAssign(m, k.val, w.val), w.rest, n - 1)))

\* template "decodeCaseMapUint64Uint64": a map that exists is cleared
decodeCaseMapUint64Uint64(x, v) ==
    With(ReadMapHeaderBytes(v), LAMBDA h:
    IF h.err # "nil" THEN Res(h.err, x, v)
    ELSE With(IF x.t = "nil" /\ Nat64(h.val) > 0 THEN GoMapOf({})
              ELSE IF x.t # "nil" THEN GoMapOf({})
              ELSE x, LAMBDA x1:
         IF x1.t = "nil" THEN Res("nil", x1, h.rest)
         ELSE With(readUint64Pairs(x1.m, h.rest, Nat64(h.val)), LAMBDA r:
              Res(r.err, GoMapOf(r.val), r.rest))))

\* template "decodeCaseMapUint64Uint64Trusted": a map that exists is kept
decodeCaseMapUint64Uint64Trusted(x, v) ==
    With(ReadMapHeaderBytes(v), LAMBDA h:
    IF h.err # "nil" THEN Res(h.err, x, v)
    ELSE With(IF x.t = "nil" /\ Nat64(h.val) > 0 THEN GoMapOf({}) ELSE x, LAMBDA x1:
         IF x1.t = "nil" THEN Res("nil", x1, h.rest)
         ELSE With(readUint64Pairs(x1.m, h.rest, Nat64(h.val)), LAMBDA r:
              Res(r.err, GoMapOf(r.val), r.rest))))

\* the wire key of the field
keyM == <<109>>

\* the emitted decode of a record with the one field M map[uint64]uint64
\* `cbor:"m"`: the entries of the map are read in turn, the key "m" runs the
\* field's decode case and any other key has its value skipped
RECURSIVE decodeEntries(_, _, _, _, _)
decodeEntries(v, x, n, trusted, b) ==
    IF n = 0 THEN Res("nil", x, v)
    ELSE With(IF trusted THEN ReadStringZC(v) ELSE ReadStringBytes(v), LAMBDA k:
         IF k.err # "nil" THEN Res(k.err, x, b)
         ELSE With(IF k.val # keyM THEN With(Skip(k.rest), LAMBDA s: Res(s.err, x, s.rest))
                   ELSE IF trusted THEN decodeCaseMapUint64Uint64Trusted(x, k.rest)
                   ELSE decodeCaseMapUint64Uint64(x, k.rest), LAMBDA f:
              IF f.err # "nil" THEN Res(f.err, f.val, b)
              ELSE decodeEntries(f.rest, f.val, n - 1, trusted, b)))

emittedDecode(b, x, trusted) ==
    With(ReadMapHeaderBytes(b), LAMBDA h:
    IF h.err # "nil" THEN Res(h.err, x, b)
    ELSE decodeEntries(h.rest, x, Nat64(h.val), trusted, b))

emittedUnmarshalCBOR(b, x) == emittedDecode(b, x, FALSE)
emittedDecodeTrusted(b, x) == emittedDecode(b, x, TRUE)

----------------------------------------------------------------------------
(* Decoding a record into a destination that already holds a map.          *)

MaxKey == 2

Uint64Maps ==
    { m \in SUBSET { <<U64(k), U64(w)>> : k \in 1..MaxKey, w \in 1..2 } :
        \A p, q \in m : p[1] = q[1] => p = q }

Destinations == {GoNil} \cup { GoMapOf(m) : m \in Uint64Maps }

RECURSIVE appendUint64Pairs(_, _)
appendUint64Pairs(b, pairs) ==
    IF pairs = <<>> THEN b
    ELSE appendUint64Pairs(AppendUint64(AppendUint64(b, pairs[1][1]), pairs[1][2]), Tail(pairs))

\* the record {"m": {...}} with the pairs in the order given, and the same
\* after an entry "f": 1 that the record does not know
RecordOf(pairs) ==
    appendUint64Pairs(AppendMapHeader(AppendString(AppendMapHeader(<<>>, 1), keyM), Len(pairs)),
                      pairs)
RecordWithUnknown(pairs) ==
    appendUint64Pairs(AppendMapHeader(AppendString(
        AppendString(AppendMapHeader(<<>>, 2), keyF) \o <<1>>, keyM), Len(pairs)), pairs)

PairLists ==
    {<<>>} \cup { <<p>> : p \in { <<U64(k), U64(w)>> : k \in 1..MaxKey, w \in 1..2 } }
        \cup { <<<<U64(1), U64(w)>>, <<U64(2), U64(1)>>>> : w \in 1..2 }
        \cup { <<<<U64(1), U64(1)>>, <<U64(1), U64(2)>>>> }

\* whole records, records cut short, and an empty record
RecordInputs ==
    { RecordOf(l) : l \in PairLists } \cup { RecordWithUnknown(l) : l \in PairLists }
        \cup { SubSeq(RecordOf(l), 1, Len(RecordOf(l)) - 1) : l \in PairLists }
        \cup { <<160>>, <<>> }

InitDecode ==
    /\ fn = "record"
    /\ val \in Destinations
    /\ wire \in RecordInputs
    /\ res = IdleRes
    /\ ReaderIdle
    /\ PoolIdle
    /\ generatedStructs = {}

DecodeInto(name, r) ==
    /\ fn = "record"
    /\ res' = r
    /\ fn' = name
    /\ UNCHANGED <<val, wire, readerVars, poolVars, generatedStructs>>

NextDecode ==
    \/ DecodeInto("UnmarshalCBOR", emittedUnmarshalCBOR(wire, val))
    \/ DecodeInto("DecodeTrusted", emittedDecodeTrusted(wire, val))

SpecDecode == InitDecode /\ [][NextDecode]_vars

\* the entries of a map field; a nil map has none
MapEntries(x) == IF x.t = "nil" THEN {} ELSE x.m

\* C22: on an input both decode paths accept, from the same prior content
\* of the destination, the safe path and the trusted path return the same
\* remainder and leave the destination with equal field values.
C22_SafeAndTrustedAgree ==
    (fn = "UnmarshalCBOR" /\ res.err = "nil") =>
        With(emittedDecodeTrusted(wire, val), LAMBDA t:
            t.err = "nil" =>
                (t.rest = res.rest /\ MapEntries(t.val) = MapEntries(res.val)))

----------------------------------------------------------------------------
(* cborgen: the trusted decode case of a field that refers to a struct,    *)
(* and the package variable generatedStructs across generator runs.        *)

StarOf(x) == [node |-> "StarExpr", X |-> x]
SliceOf(elt) == [node |-> "ArrayType", Len |-> "nil", Elt |-> elt]
MapOf(key, value) == [node |-> "MapType", Key |-> key, Value |-> value]

BasicNames == {"string", "bool", "uint64"}

\* decodeCaseExprTrusted: the template chosen for the field type, given
\* the content of generatedStructs at the time of the call
decodeCaseExprTrusted(typ, generated) ==
    IF typ.node = "MapType" THEN
        IF typ.Key.node # "Ident" THEN ""
        ELSE IF typ.Key.Name = "uint64" THEN
            IF typ.Value.node = "StarExpr" /\ typ.Value.X.node = "Ident"
            THEN "decodeCaseMapUint64PtrTrusted"
            ELSE IF typ.Value.node = "Ident" /\ typ.Value.Name = "uint64"
            THEN "decodeCaseMapUint64Uint64Trusted"
            ELSE ""
        ELSE IF typ.Key.Name # "string" THEN ""
        ELSE IF typ.Value.node = "Ident" THEN
            IF typ.Value.Name \in BasicNames THEN "decodeCaseMapStrBasic"
            ELSE IF typ.Value.Name \in generated THEN "decodeCaseMapStrStructTrusted"
            ELSE "decodeCaseMapStrStruct"
        ELSE IF typ.Value.node = "StarExpr" /\ typ.Value.X.node = "Ident" THEN
            IF typ.Value.X.Name \in generated THEN "decodeCaseMapStrPtrStructTrusted"
            ELSE "decodeCaseMapStrPtrStruct"
        ELSE ""
    ELSE IF typ.node = "Ident" THEN
        IF typ.Name = "string" THEN "decodeCaseStringTrusted"
        ELSE IF typ.Name \in BasicNames THEN "decodeCaseBasic"
        ELSE IF typ.Name \in generated THEN "decodeCaseTrustedField"
        ELSE "decodeCaseUnmarshalField"
    ELSE IF typ.node = "ArrayType" THEN
        IF typ.Elt.node = "Ident" THEN
            IF typ.Elt.Name \in BasicNames THEN "decodeCaseSliceBasic"
            ELSE IF typ.Elt.Name \in generated THEN "decodeCaseSliceStructTrusted"
            ELSE "decodeCaseSliceStruct"
        ELSE IF typ.Elt.node = "StarExpr" /\ typ.Elt.X.node = "Ident" THEN
            IF typ.Elt.X.Name \in generated THEN "decodeCaseSlicePtrStructTrusted"
            ELSE "decodeCaseSlicePtrStruct"
        ELSE ""
    ELSE IF typ.node = "StarExpr" THEN
        IF typ.X.node # "Ident" THEN ""
        ELSE IF typ.X.Name \in generated THEN "decodeCasePtrTrustedField"
        ELSE "decodeCasePtrUnmarshalField"
    ELSE ""

\* generateStructCode over the type declarations of a file, in order: the
\* fields of a struct are processed first, and the struct is entered into
\* generatedStructs after them.  Gives the emitted structs and the final
\* generatedStructs.
RECURSIVE generateDecls(_, _, _, _)
generateDecls(decls, i, generated, structs) ==
    IF i > Len(decls) THEN [structs |-> structs, generated |-> generated]
    ELSE With([Name |-> decls[i].Name,
               DecodeCaseTrust |->
                   With(decodeCaseExprTrusted(decls[i].Type, generated), LAMBDA dc:
                        IF dc = "" THEN "decodeCaseSkip" ELSE dc)], LAMBDA ss:
         generateDecls(decls, i + 1, generated \cup {ss.Name}, Append(structs, ss)))

\* the struct names of the files and the types of their one field F
StructNames == {"A", "B"}

RefTypes(name) ==
    { Ident(name), StarOf(Ident(name)), SliceOf(Ident(name)), SliceOf(StarOf(Ident(name))),
      MapOf(Ident("string"), Ident(name)), MapOf(Ident("string"), StarOf(Ident(name))) }

FieldTypes ==
    UNION { RefTypes(n) : n \in StructNames }
        \cup { Ident("string"), Ident("uint64"), SliceOf(Ident("string")),
               MapOf(Ident("uint64"), StarOf(Ident("A"))),
               MapOf(Ident("uint64"), Ident("uint64")) }

MaxDecls == 2

Files ==
    { f \in UNION { [1..n -> [Name : StructNames, Type : FieldTypes]] : n \in 1..MaxDecls } :
        /\ \A i, j \in DOMAIN f : f[i].Name = f[j].Name => i = j
        \* a struct cannot hold itself by value, directly or through another
        /\ \A i, j \in DOMAIN f :
               ~(f[i].Type = Ident(f[j].Name) /\ (i = j \/ f[j].Type = Ident(f[i].Name))) }

InitGen ==
    /\ CodecIdle
    /\ ReaderIdle
    /\ PoolIdle
    /\ generatedStructs = {}

\* one run of the generator in the process, on any file
RunCborgen ==
    \E file \in Files :
        With(generateDecls(file, 1, generatedStructs, <<>>), LAMBDA out:
            /\ val' = file
            /\ res' = Res("nil", out.structs, <<>>)
            /\ generatedStructs' = out.generated
            /\ fn' = "generateStructCode"
            /\ UNCHANGED <<wire, readerVars, poolVars>>)

NextGen == RunCborgen

SpecGen == InitGen /\ [][NextGen]_vars

\* the struct a field type is, points to, or is a slice or string-keyed map of
NestedName(typ) ==
    IF typ.node = "Ident" THEN typ.Name
    ELSE IF typ.node = "StarExpr" THEN typ.X.Name
    ELSE IF typ.node = "ArrayType" THEN
        IF typ.Elt.node = "Ident" THEN typ.Elt.Name ELSE typ.Elt.X.Name
    ELSE IF typ.Key.Name # "string" THEN ""
    ELSE IF typ.Value.node = "Ident" THEN typ.Value.Name ELSE typ.Value.X.Name

\* the decode cases that go through the nested record's DecodeTrusted
TrustedCases ==
    {"decodeCaseTrustedField", "decodeCasePtrTrustedField", "decodeCaseSliceStructTrusted",
     "decodeCaseSlicePtrStructTrusted", "decodeCaseMapStrStructTrusted",
     "decodeCaseMapStrPtrStructTrusted"}

\* C23: after a generator run, every field that refers to a record emitted
\* in that run is decoded, on the trusted path, through that record's
\* DecodeTrusted, whatever the order of the declarations and whatever
\* earlier runs in the process have emitted.
C23_NestedTrustedInSamePass ==
    fn = "generateStructCode" =>
        \A i \in DOMAIN val :
            NestedName(val[i].Type) \in { val[j].Name : j \in DOMAIN val } =>
                res.val[i].DecodeCaseTrust \in TrustedCases

----------------------------------------------------------------------------
(* cborgen: field tags.  A tag value is a sequence of characters; the word *)
(* omitempty stands as one element.  A struct tag is the values            *)
(* reflect.StructTag.Get gives for cbor and json, empty when the key is    *)
(* not there; NoTag is a field without a tag literal.                      *)

NoTag == [nil |-> TRUE]

\* strings.Split(tag, ","): the parts between the commas
RECURSIVE splitComma(_, _, _)
splitComma(tag, i, part) ==
    IF i > Len(tag) THEN <<part>>
    ELSE IF tag[i] = "," THEN <<part>> \o splitComma(tag, i + 1, <<>>)
    ELSE splitComma(tag, i + 1, Append(part, tag[i]))

splitNameOptions(tag) ==
    LET parts == splitComma(tag, 1, <<>>) IN
    [name |-> IF parts[1] = <<>> THEN <<"-">> ELSE parts[1],
     omit |-> \E i \in 2..Len(parts) : parts[i] = <<"omitempty">>]

parseTag(v) == [v |-> v, ok |-> v # <<>>]

resolveFieldSpec(goName, tag) ==
    LET fs == [GoName |-> goName, CBORName |-> goName, OmitEmpty |-> FALSE, Ignore |-> FALSE] IN
    IF tag = NoTag THEN fs
    ELSE IF parseTag(tag.cbor).ok THEN
        IF tag.cbor = <<"-">> THEN [fs EXCEPT !.Ignore = TRUE]
        ELSE With(splitNameOptions(tag.cbor), LAMBDA s:
             [fs EXCEPT !.CBORName = s.name, !.OmitEmpty = s.omit])
    ELSE IF parseTag(tag.json).ok THEN
        IF tag.json = <<"-">> THEN [fs EXCEPT !.Ignore = TRUE]
        ELSE With(splitNameOptions(tag.json), LAMBDA s:
             [fs EXCEPT !.CBORName = s.name, !.OmitEmpty = s.omit])
    ELSE fs

MaxTagLen == 3

TagChars == {"a", "-", ",", "omitempty"}

TagValues == UNION { [1..n -> TagChars] : n \in 0..MaxTagLen }

StructTags == {NoTag} \cup [cbor : TagValues, json : TagValues]

InitTag ==
    /\ fn = "field"
    /\ val \in [goName : {<<"F">>}, tag : StructTags]
    /\ wire = <<>>
    /\ res = IdleRes
    /\ ReaderIdle
    /\ PoolIdle
    /\ generatedStructs = {}

Resolve ==
    /\ fn = "field"
    /\ res' = Res("nil", resolveFieldSpec(val.goName, val.tag), <<>>)
    /\ fn' = "resolveFieldSpec"
    /\ UNCHANGED <<val, wire, readerVars, poolVars, generatedStructs>>

NextTag == Resolve

SpecTag == InitTag /\ [][NextTag]_vars

\* the tag value that governs the field: cbor when present, else json when
\* present, else none (the empty value)
GoverningTag(tag) ==
    IF tag = NoTag THEN <<>>
    ELSE IF tag.cbor # <<>> THEN tag.cbor
    ELSE tag.json

\* the characters of a tag value before its first comma
RECURSIVE nameOf(_)
nameOf(v) == IF v = <<>> \/ v[1] = "," THEN <<>> ELSE <<v[1]>> \o nameOf(Tail(v))

\* an option of the tag value, after the name, says omitempty
RECURSIVE hasOmitEmpty(_, _)
hasOmitEmpty(v, i) ==
    IF i >= Len(v) THEN FALSE
    ELSE \/ /\ v[i] = "," /\ v[i + 1] = "omitempty"
            /\ (i + 2 > Len(v) \/ v[i + 2] = ",")
         \/ hasOmitEmpty(v, i + 1)

\* C24: the wire key and the options of a field come from the cbor tag when
\* there is one, else from the json tag; without a tag, and when the tag
\* names no key, the wire key is the declared name; a tag value of exactly
\* "-" removes the field, and the option omitempty marks it omit-empty.
C24_TagResolution ==
    fn = "resolveFieldSpec" =>
        With(GoverningTag(val.tag), LAMBDA v:
            IF v = <<"-">> THEN res.val.Ignore
            ELSE /\ ~res.val.Ignore
                 /\ res.val.CBORName = (IF nameOf(v) = <<>> THEN val.goName ELSE nameOf(v))
                 /\ res.val.OmitEmpty = hasOmitEmpty(v, 1))

\* ---------------------------------------------------------------------
\* cborgen: the Msgsize expression (main.go fieldSizeExpr, runtime/size.go)
\* ---------------------------------------------------------------------

Int64Size == 9
Uint64Size == 9
BoolSize == 1
MapHeaderSize == 5
ArrayHeaderSize == 5
BytesPrefixSize == 5
StringPrefixSize == 5

\* a size expression key + base + len(x.F)*per; ok is false when the type
\* contributes nothing to Msgsize
SizeExpr(key, base, per) == [ok |-> TRUE, key |-> key, base |-> base, per |-> per]
NoSizeExpr == [ok |-> FALSE, key |-> 0, base |-> 0, per |-> 0]

\* the element size of a scalar slice or of the values of a map[string]T
elemSize(name) ==
    IF name = "string" THEN StringPrefixSize
    ELSE IF name = "bool" THEN BoolSize
    ELSE IF name = "int64" THEN Int64Size
    ELSE IF name = "uint64" THEN Uint64Size
    ELSE 0

fieldSizeExpr(cborName, typ) ==
    LET key == StringPrefixSize + Len(cborName)
    IN  IF typ.node = "Ident" THEN
            IF typ.Name = "string" THEN SizeExpr(key, StringPrefixSize, 1)
            ELSE IF typ.Name = "bool" THEN SizeExpr(key, BoolSize, 0)
            ELSE IF typ.Name = "int64" THEN SizeExpr(key, Int64Size, 0)
            ELSE IF typ.Name = "uint64" THEN SizeExpr(key, Uint64Size, 0)
            ELSE NoSizeExpr
        ELSE IF typ.node = "ArrayType" THEN
            IF typ.Elt.node # "Ident" \/ typ.Len # "nil" THEN NoSizeExpr
            ELSE IF typ.Elt.Name = "byte" THEN SizeExpr(key, BytesPrefixSize, 1)
            ELSE SizeExpr(key, ArrayHeaderSize, elemSize(typ.Elt.Name))
        ELSE IF typ.node = "MapType" THEN
            IF typ.Key.node # "Ident" \/ typ.Value.node # "Ident" THEN NoSizeExpr
            ELSE IF typ.Key.Name # "string" THEN NoSizeExpr
            ELSE SizeExpr(key, MapHeaderSize, StringPrefixSize + elemSize(typ.Value.Name))
        ELSE NoSizeExpr

\* values with content: []byte, a slice of values, a map[string]T in the
\* order its entries are ranged over
GoBytes(s) == [t |-> "bytes", s |-> s]
GoList(l) == [t |-> "list", l |-> l]
GoStrMap(m) == [t |-> "strmap", m |-> m]

\* len(x.F)
lenOf(v) ==
    IF v.t \in {"string", "bytes"} THEN Len(v.s)
    ELSE IF v.t = "list" THEN Len(v.l)
    ELSE IF v.t = "strmap" THEN Len(v.m)
    ELSE 0

evalSizeExpr(e, v) == e.key + e.base + lenOf(v) * e.per

\* ss.MsgSizeExpr: MapHeaderSize plus the parts of the fields that have one
RECURSIVE sizeExprParts(_, _, _)
sizeExprParts(fs, x, i) ==
    IF i > Len(fs) THEN 0
    ELSE With(fieldSizeExpr(fs[i].CBORName, fs[i].Type), LAMBDA e :
             (IF e.ok THEN evalSizeExpr(e, x[i]) ELSE 0) + sizeExprParts(fs, x, i + 1))

emittedMsgsize(fs, x) == MapHeaderSize + sizeExprParts(fs, x, 1)

\* the scalar appender chosen by element or field type name
appendScalar(b, name, v) ==
    IF name = "string" THEN AppendString(b, v.s)
    ELSE IF name = "bool" THEN AppendBool(b, v.b)
    ELSE IF name = "int64" THEN AppendInt64(b, v.i)
    ELSE AppendUint64(b, v.i)

RECURSIVE encodeSliceScalar(_, _, _, _)
encodeSliceScalar(b, name, l, i) ==
    IF i > Len(l) THEN b
    ELSE encodeSliceScalar(appendScalar(b, name, l[i]), name, l, i + 1)

RECURSIVE encodeMapStrScalar(_, _, _, _)
encodeMapStrScalar(b, name, m, i) ==
    IF i > Len(m) THEN b
    ELSE encodeMapStrScalar(appendScalar(AppendString(b, m[i][1]), name, m[i][2]),
                            name, m, i + 1)

keyS == <<115>>

\* the MarshalCBOR of the nested record type Inner with the one field S string
innerMarshalCBOR(b, v) == AppendString(AppendString(AppendMapHeader(b, 1), keyS), v.s)

AppendPtrMarshaler(b, v) ==
    IF v.t = "nil" THEN AppendNil(b) ELSE innerMarshalCBOR(b, v.to)

\* the bytes the emitted marshal appends for the value of one field
encodeExprForField(b, typ, v) ==
    IF typ.node = "Ident" THEN appendScalar(b, typ.Name, v)
    ELSE IF typ.node = "ArrayType" THEN
        IF typ.Elt.Name = "byte" THEN AppendBytes(b, v.s)
        ELSE encodeSliceScalar(AppendArrayHeader(b, Len(v.l)), typ.Elt.Name, v.l, 1)
    ELSE IF typ.node = "MapType" THEN
        encodeMapStrScalar(AppendMapHeader(b, Len(v.m)), typ.Value.Name, v.m, 1)
    ELSE AppendPtrMarshaler(b, v)

RECURSIVE encodeFields(_, _, _, _)
encodeFields(b, fs, x, i) ==
    IF i > Len(fs) THEN b
    ELSE encodeFields(encodeExprForField(AppendString(b, fs[i].CBORName), fs[i].Type, x[i]),
                      fs, x, i + 1)

\* the emitted MarshalCBOR of a record without omit-empty fields
emittedMarshalSized(fs, x, b) == encodeFields(AppendMapHeader(b, Len(fs)), fs, x, 1)

MaxTextLen == 20
MaxEntries == 2

Texts == {Rep(97, n) : n \in {0, 1, MaxTextLen}}
Ints == {Zero64, U64(1), U64(300), Not64(Zero64)}

SizedTypes ==
    {Ident("string"), Ident("bool"), Ident("int64"), Ident("uint64"),
     SliceOf(Ident("byte")), SliceOf(Ident("string")), SliceOf(Ident("uint64")),
     MapOf(Ident("string"), Ident("string")), MapOf(Ident("string"), Ident("uint64")),
     StarOf(Ident("Inner"))}

SeqsUpTo(S, n) == UNION { [1..k -> S] : k \in 0..n }

scalarValues(name) ==
    IF name = "string" THEN {GoString(s) : s \in Texts}
    ELSE IF name = "bool" THEN {GoBool(TRUE), GoBool(FALSE)}
    ELSE {GoInt(i) : i \in Ints}

\* the values of a type; map entries have distinct keys
valuesOf(typ) ==
    IF typ.node = "Ident" THEN scalarValues(typ.Name)
    ELSE IF typ.node = "ArrayType" THEN
        IF typ.Elt.Name = "byte" THEN {GoBytes(s) : s \in Texts}
        ELSE {GoList(l) : l \in SeqsUpTo(scalarValues(typ.Elt.Name), MaxEntries)}
    ELSE IF typ.node = "MapType" THEN
        {GoStrMap(m) : m \in {q \in SeqsUpTo(Texts \X scalarValues(typ.Value.Name), MaxEntries) :
                                 \A i, j \in 1..Len(q) : q[i][1] = q[j][1] => i = j}}
    ELSE {GoNil} \cup {GoPointer(GoString(s)) : s \in Texts}

\* type T struct { Name string `cbor:"name"`; F typ `cbor:"f"` }
sizedFields(typ) ==
    <<[GoName |-> "Name", CBORName |-> keyName, Type |-> Ident("string")],
      [GoName |-> "F", CBORName |-> keyF, Type |-> typ]>>

SizedRecords ==
    UNION { {[fs |-> sizedFields(typ), x |-> <<GoString(n), v>>] :
                n \in {<<>>, <<97>>}, v \in valuesOf(typ)} : typ \in SizedTypes }

InitSize ==
    /\ fn = "record"
    /\ val \in SizedRecords
    /\ wire = <<>>
    /\ res = IdleRes
    /\ ReaderIdle
    /\ PoolIdle
    /\ generatedStructs = {}

MarshalSized ==
    /\ fn = "record"
    /\ wire' = emittedMarshalSized(val.fs, val.x, <<>>)
    /\ fn' = "MarshalCBOR"
    /\ UNCHANGED <<val, res, readerVars, poolVars, generatedStructs>>

Msgsize ==
    /\ fn = "MarshalCBOR"
    /\ res' = Res("nil", emittedMsgsize(val.fs, val.x), <<>>)
    /\ fn' = "Msgsize"
    /\ UNCHANGED <<val, wire, readerVars, poolVars, generatedStructs>>

NextSize == MarshalSized \/ Msgsize

SpecSize == InitSize /\ [][NextSize]_vars

\* C25: for every emitted record and every value of it, the size returned by
\* the emitted Msgsize is at least the number of bytes the emitted MarshalCBOR
\* appends for that value
C25_MsgsizeBoundsMarshal ==
    fn = "Msgsize" => res.val >= Len(wire)

\* ---------------------------------------------------------------------
\* helpers.go, json_interop.go: the text written for a negative integer
\* ---------------------------------------------------------------------

\* a - b on big-endian byte sequences of one length, wrapping
RECURSIVE subBytes(_, _, _, _)
subBytes(a, b, i, borrow) ==
    IF i = 0 THEN <<>>
    ELSE LET d == a[i] - b[i] - borrow
         IN  subBytes(a, b, i - 1, IF d < 0 THEN 1 ELSE 0) \o <<d % 256>>

Sub64(a, b) == subBytes(a, b, 8, 0)

MinusOne64 == Not64(Zero64)

\* the quotient and remainder of a big-endian byte sequence by 10
RECURSIVE divMod10(_, _, _, _)
divMod10(u, i, r, q) ==
    IF i > Len(u) THEN [q |-> q, r |-> r]
    ELSE divMod10(u, i + 1, (r * 256 + u[i]) % 10, q \o <<(r * 256 + u[i]) \div 10>>)

IsZeroBytes(u) == \A i \in 1..Len(u) : u[i] = 0

RECURSIVE decimalDigits(_)
decimalDigits(u) ==
    IF IsZeroBytes(u) THEN <<>>
    ELSE With(divMod10(u, 1, 0, <<>>), LAMBDA d : decimalDigits(d.q) \o <<48 + d.r>>)

\* strconv.FormatUint(u, 10), also used for magnitudes wider than 64 bits
FormatUint(u) == IF IsZeroBytes(u) THEN <<48>> ELSE decimalDigits(u)

\* strconv.FormatInt(n, 10): the sign and the magnitude uint64(-n)
FormatInt(n) ==
    IF IsNeg64(n) THEN <<45>> \o FormatUint(Sub64(Zero64, n)) ELSE FormatUint(n)

\* case majorTypeNegInt of diagOneBuf: the text written and the bytes left
diagNegInt(b) ==
    With(readUintCore(b, majorTypeNegInt), LAMBDA h:
    IF h.err # "nil" THEN Res(h.err, <<>>, b)
    ELSE Res("nil", FormatInt(Sub64(MinusOne64, h.val)), h.rest))

\* case majorTypeNegInt of toJSON
toJSONNegInt(b) ==
    With(readUintCore(b, majorTypeNegInt), LAMBDA h:
    IF h.err # "nil" THEN Res(h.err, <<>>, b)
    ELSE Res("nil", FormatInt(Sub64(MinusOne64, h.val)), h.rest))

MaxDirectArg == 40

\* the arguments n of the items: small ones, the edges of each header
\* width and the edges of the int64 range
NegArguments ==
    {U64(n) : n \in 0..MaxDirectArg} \cup
    {U64(255), U64(256), U64(65535), U64(65536), MaxUint32,
     <<0, 0, 0, 1, 0, 0, 0, 0>>, MaxInt64, Not64(MaxInt64),
     <<128, 0, 0, 0, 0, 0, 0, 1>>, <<255, 255, 255, 255, 255, 255, 255, 254>>,
     MinusOne64}

InitNeg ==
    /\ fn = "item"
    /\ val \in NegArguments
    /\ wire = appendUintCore(<<>>, majorTypeNegInt, val)
    /\ res = IdleRes
    /\ ReaderIdle
    /\ PoolIdle
    /\ generatedStructs = {}

Render(name, r) ==
    /\ fn = "item"
    /\ res' = r
    /\ fn' = name
    /\ UNCHANGED <<val, wire, readerVars, poolVars, generatedStructs>>

NextNeg ==
    \/ Render("DiagBytes", diagNegInt(wire))
    \/ Render("ToJSONBytes", toJSONNegInt(wire))

SpecNeg == InitNeg /\ [][NextNeg]_vars

\* the decimal numeral of -1 - n, computed on 9 bytes: a minus sign and n + 1
NumeralOfMinusOneMinus(n) ==
    <<45>> \o FormatUint(subBytes(<<0>> \o n, <<255>> \o MinusOne64, 9, 0))

\* C26: diagnostic rendering and ToJSON render the negative-integer item with
\* argument n as the decimal numeral of -1 - n, for every n up to 2^64 - 1
C26_NegativeNumeral ==
    fn \in {"DiagBytes", "ToJSONBytes"} =>
        /\ res.err = "nil"
        /\ res.val = NumeralOfMinusOneMinus(val)

\* ---------------------------------------------------------------------
\* errors.go: Resumable and WrapError
\* ---------------------------------------------------------------------

resumableDefault == FALSE

\* error values by dynamic type; errorString is an error made by errors.New,
\* which does not satisfy the Error interface
errShort == [type |-> "errShort"]
InvalidPrefixError(want, got) == [type |-> "InvalidPrefixError", Want |-> want, Got |-> got]
TypeError(ctx) == [type |-> "TypeError", ctx |-> ctx]
errorString == [type |-> "errorString"]
errWrapped(cause, ctx) == [type |-> "errWrapped", cause |-> cause, ctx |-> ctx]

badPrefix(wantMajor, gotMajor) == InvalidPrefixError(wantMajor, gotMajor)

\* e.(Error) succeeds
IsError(e) == e.type # "errorString"

RECURSIVE ResumableMethod(_)
RECURSIVE errWrappedResumable(_)

errWrappedResumable_Always(e) == TRUE

\* func (e errWrapped) Resumable() bool
errWrappedResumable(e) ==
    IF IsError(e.cause) THEN ResumableMethod(e.cause) ELSE resumableDefault

\* the Resumable method of each error type
ResumableMethod(e) ==
    IF e.type = "errShort" THEN FALSE
    ELSE IF e.type = "InvalidPrefixError" THEN FALSE
    ELSE IF e.type = "TypeError" THEN TRUE
    ELSE errWrappedResumable(e)

Resumable(e) == IF IsError(e) THEN ResumableMethod(e) ELSE resumableDefault

addCtx(ctx, add) == IF ctx # <<>> THEN add \o <<"/">> \o ctx ELSE add

\* func (t TypeError) withContext(ctx string) error
withContext(t, ctx) == [t EXCEPT !.ctx = addCtx(t.ctx, ctx)]

\* WrapError(err, ctx...), ctx being the context string built from the
\* arguments
WrapError(err, ctx) ==
    IF err.type = "errShort" THEN err
    ELSE IF err.type = "TypeError" THEN withContext(err, ctx)
    ELSE errWrapped(err, ctx)

MaxWraps == 2

Majors == 0..7
Contexts == {<<>>, <<"a">>}

BaseErrors ==
    {errShort, errorString, TypeError(<<>>)} \cup
    {badPrefix(p[1], p[2]) : p \in {q \in Majors \X Majors : q[1] # q[2]}}

\* val.orig is the error as it was raised, val.err the error after val.n
\* calls of WrapError
InitErr ==
    /\ fn = "error"
    /\ \E e \in BaseErrors : val = [orig |-> e, err |-> e, n |-> 0]
    /\ wire = <<>>
    /\ res = IdleRes
    /\ ReaderIdle
    /\ PoolIdle
    /\ generatedStructs = {}

Wrap ==
    /\ fn = "error"
    /\ val.n < MaxWraps
    /\ \E ctx \in Contexts :
           val' = [val EXCEPT !.err = WrapError(val.err, ctx), !.n = val.n + 1]
    /\ UNCHANGED <<fn, res, wire, readerVars, poolVars, generatedStructs>>

AskResumable ==
    /\ fn = "error"
    /\ res' = Res("nil", Resumable(val.err), <<>>)
    /\ fn' = "Resumable"
    /\ UNCHANGED <<val, wire, readerVars, poolVars, generatedStructs>>

NextErr == Wrap \/ AskResumable

SpecErr == InitErr /\ [][NextErr]_vars

\* C27 as stated: Resumable is true for every invalid-prefix error and false
\* for every short-input error, also after the error was wrapped with context
C27_ResumableAsStated ==
    fn = "Resumable" =>
        /\ val.orig.type = "InvalidPrefixError" => res.val = TRUE
        /\ val.orig.type = "errShort" => res.val = FALSE

\* C27 as amended: Resumable is false for every invalid-prefix error and for
\* every short-input error, and gives the answer it gave for the error as
\* raised after any number of wrappings with context
C27_ResumableFalseAndStable ==
    fn = "Resumable" /\ val.orig.type \in {"InvalidPrefixError", "errShort"} =>
        /\ res.val = FALSE
        /\ res.val = Resumable(val.orig)

\* a twice wrapped invalid-prefix error was asked
C27_Witness ==
    /\ fn = "Resumable"
    /\ val.orig.type = "InvalidPrefixError"
    /\ val.n = MaxWraps
    /\ val.err.type = "errWrapped"
    /\ val.err.cause.type = "errWrapped"
    /\ res.val = FALSE

\* ---------------------------------------------------------------------
\* Reader: the remaining buffer over a run of operations
\* ---------------------------------------------------------------------

\* the integer 1, the text and the byte string of the one byte 0x01, the
\* array [1], the empty map, true, 1.0 as float32, a lone break, the empty
\* indefinite-length array
ReadItems ==
    { <<1>>, <<97, 1>>, <<65, 1>>, <<129, 1>>, <<160>>, <<245>>,
      <<250, 63, 128, 0, 0>>, <<255>>, <<159, 255>> }

\* buffers of at most two items, and every header form of every major type
\* followed by at most one payload byte
ItemBufs ==
    { a \o b : a, b \in ReadItems \cup {<<>>} } \cup { h \o t : h \in Heads, t \in Tails(1) }

IsSuffix(s, b) == Len(s) <= Len(b) /\ s = SubSeq(b, Len(b) - Len(s) + 1, Len(b))

\* NewReaderBytes(wire); val counts the reads and skips that returned no
\* error
InitReads ==
    /\ wire \in ItemBufs
    /\ buf = wire
    /\ val = 0
    /\ strict = FALSE
    /\ deterministic = FALSE
    /\ maxContainer = 0
    /\ lastOp = "NewReaderBytes"
    /\ lastErr = "nil"
    /\ lastVal = NoVal
    /\ fn = "none"
    /\ res = IdleRes
    /\ PoolIdle
    /\ generatedStructs = {}

\* a Reader method returns r, as in Call; a success is counted, up to one
\* more than the length of the buffer
CountedCall(op, r) ==
    /\ lastOp' = op
    /\ lastErr' = r.err
    /\ lastVal' = r.val
    /\ buf' = r.rest
    /\ val' = IF r.err = "nil" /\ val <= Len(wire) THEN val + 1 ELSE val
    /\ UNCHANGED <<strict, deterministic, maxContainer, wire, fn, res, poolVars,
                   generatedStructs>>

ReadOrSkip ==
    \E op \in ReadOps : CountedCall(op, ReaderOp(op, buf, strict, deterministic, maxContainer))

NextReads ==
    \/ SetStrictDecode
    \/ SetDeterministicDecode
    \/ SetMaxContainerLen
    \/ ReadOrSkip

SpecReads == InitReads /\ [][NextReads]_vars

\* C28: after any sequence of Reader operations and setting changes the
\* remaining buffer is a suffix of the buffer the Reader was constructed
\* over; every successful read or skip removes at least one byte from its
\* front and every failed one removes none, so over a buffer of length n at
\* most n operations succeed
C28_ReaderConsumesFromFront ==
    /\ [](IsSuffix(buf, wire) /\ val <= Len(wire))
    /\ [][lastOp' \in ReadOps =>
            IF lastErr' = "nil"
            THEN Len(buf') < Len(buf) /\ IsSuffix(buf', buf) /\ val' = val + 1
            ELSE buf' = buf /\ val' = val]_vars

\* four operations have succeeded over the four bytes of [1] [1]
C28_Witness ==
    /\ wire = <<129, 1, 129, 1>>
    /\ val = 4
    /\ buf = <<>>
    /\ lastOp = "ReadInt64" /\ lastErr = "nil"
    /\ strict /\ deterministic /\ maxContainer > 0

\* ---------------------------------------------------------------------
\* cborgen: records with pointer fields, slices of pointers and maps to
\* pointers (encode_block.go.tpl, decode_case.go.tpl)
\*
\*   type Inner struct { S string `cbor:"s"` }
\*   type Outer struct {
\*       P      *Inner            `cbor:"p"`
\*       Ptrs   []*Inner          `cbor:"ptrs"`
\*       PtrMap map[string]*Inner `cbor:"ptr_map"`
\*   }
\*
\* A *Inner is GoNil or GoPointer(GoString(s)) for the Inner with S = s.
\* ---------------------------------------------------------------------

keyP == <<112>>
keyPtrs == <<112, 116, 114, 115>>
keyPtrMap == <<112, 116, 114, 95, 109, 97, 112>>

RECURSIVE encodeSlicePtrMarshaler(_, _, _)
encodeSlicePtrMarshaler(b, l, i) ==
    IF i > Len(l) THEN b
    ELSE encodeSlicePtrMarshaler(
             IF l[i].t = "nil" THEN AppendNil(b) ELSE innerMarshalCBOR(b, l[i].to), l, i + 1)

\* m is the sequence of the entries in the order range yields them
RECURSIVE encodeMapStrPtrMarshaler(_, _, _)
encodeMapStrPtrMarshaler(b, m, i) ==
    IF i > Len(m) THEN b
    ELSE encodeMapStrPtrMarshaler(
             With(AppendString(b, m[i][1]), LAMBDA k :
                 IF m[i][2].t = "nil" THEN AppendNil(k) ELSE innerMarshalCBOR(k, m[i][2].to)),
             m, i + 1)

\* the emitted MarshalCBOR of Outer
outerMarshalCBOR(b, x) ==
    With(AppendPtrMarshaler(AppendString(AppendMapHeader(b, 3), keyP), x.P), LAMBDA b1 :
    With(encodeSlicePtrMarshaler(
             AppendArrayHeader(AppendString(b1, keyPtrs), Len(x.Ptrs)), x.Ptrs, 1), LAMBDA b2 :
    encodeMapStrPtrMarshaler(
        AppendMapHeader(AppendString(b2, keyPtrMap), Len(x.PtrMap)), x.PtrMap, 1)))

\* the emitted decode of Inner into the Inner with S = s: the entries of the
\* map are read in turn, the key "s" reads the string and any other key has
\* its value skipped
RECURSIVE innerEntries(_, _, _, _, _)
innerEntries(v, s, n, trusted, b) ==
    IF n = 0 THEN Res("nil", GoPointer(GoString(s)), v)
    ELSE With(IF trusted THEN ReadStringZC(v) ELSE ReadStringBytes(v), LAMBDA k:
         IF k.err # "nil" THEN Res(k.err, GoPointer(GoString(s)), b)
         ELSE IF k.val # keyS THEN
              With(Skip(k.rest), LAMBDA r:
              IF r.err # "nil" THEN Res(r.err, GoPointer(GoString(s)), b)
              ELSE innerEntries(r.rest, s, n - 1, trusted, b))
         ELSE With(IF trusted THEN ReadStringZC(k.rest) ELSE ReadStringBytes(k.rest), LAMBDA r:
              IF r.err # "nil" THEN Res(r.err, GoPointer(GoString(s)), b)
              ELSE innerEntries(r.rest, r.val, n - 1, trusted, b)))

innerDecode(b, s, trusted) ==
    With(ReadMapHeaderBytes(b), LAMBDA h:
    IF h.err # "nil" THEN Res(h.err, GoPointer(GoString(s)), b)
    ELSE innerEntries(h.rest, s, Nat64(h.val), trusted, b))

\* if x.F == nil { x.F = new(Inner) }; v, err = x.F.UnmarshalCBOR(v), or
\* DecodeTrusted on the trusted path
decodeCasePtrUnmarshalField(p, v, trusted) ==
    innerDecode(v, IF p.t = "nil" THEN <<>> ELSE p.to.s, trusted)

\* the elements of a slice made by make([]*Inner, sz)
RECURSIVE slicePtrElems(_, _, _, _)
slicePtrElems(v, l, n, trusted) ==
    IF n = 0 THEN Res("nil", l, v)
    ELSE With(decodeCasePtrUnmarshalField(GoNil, v, trusted), LAMBDA e:
         IF e.err # "nil" THEN Res(e.err, l, v)
         ELSE slicePtrElems(e.rest, Append(l, e.val), n - 1, trusted))

decodeCaseSlicePtrStruct(v, trusted) ==
    With(ReadArrayHeaderBytes(v), LAMBDA h:
    IF h.err # "nil" THEN Res(h.err, <<>>, v)
    ELSE slicePtrElems(h.rest, <<>>, Nat64(h.val), trusted))

\* the entries of a map[string]*Inner, as a set of pairs
RECURSIVE mapStrPtrEntries(_, _, _, _)
mapStrPtrEntries(v, m, n, trusted) ==
    IF n = 0 THEN Res("nil", m, v)
    ELSE With(ReadStringBytes(v), LAMBDA k:
         IF k.err # "nil" THEN Res(k.err, m, v)
         ELSE With(decodeCasePtrUnmarshalField(GoNil, k.rest, trusted), LAMBDA e:
              IF e.err # "nil" THEN Res(e.err, m, v)
              ELSE mapStrPtrEntries(e.rest, mapAssign(m, k.val, e.val), n - 1, trusted)))

decodeCaseMapStrPtrStruct(v, trusted) ==
    With(ReadMapHeaderBytes(v), LAMBDA h:
    IF h.err # "nil" THEN Res(h.err, {}, v)
    ELSE mapStrPtrEntries(h.rest, {}, Nat64(h.val), trusted))

\* the entries of the emitted decode of Outer; x.PtrMap is a set of pairs
RECURSIVE outerEntries(_, _, _, _, _)
outerEntries(v, x, n, trusted, b) ==
    IF n = 0 THEN Res("nil", x, v)
    ELSE With(IF trusted THEN ReadStringZC(v) ELSE ReadStringBytes(v), LAMBDA k:
         IF k.err # "nil" THEN Res(k.err, x, b)
         ELSE With(IF k.val = keyP THEN
                       With(decodeCasePtrUnmarshalField(x.P, k.rest, trusted), LAMBDA r:
                       Res(r.err, [x EXCEPT !.P = r.val], r.rest))
                   ELSE IF k.val = keyPtrs THEN
                       With(decodeCaseSlicePtrStruct(k.rest, trusted), LAMBDA r:
                       Res(r.err, [x EXCEPT !.Ptrs = r.val], r.rest))
                   ELSE IF k.val = keyPtrMap THEN
                       With(decodeCaseMapStrPtrStruct(k.rest, trusted), LAMBDA r:
                       Res(r.err, [x EXCEPT !.PtrMap = r.val], r.rest))
                   ELSE With(Skip(k.rest), LAMBDA r: Res(r.err, x, r.rest)), LAMBDA f:
              IF f.err # "nil" THEN Res(f.err, x, b)
              ELSE outerEntries(f.rest, f.val, n - 1, trusted, b)))

outerDecode(b, x, trusted) ==
    With(ReadMapHeaderBytes(b), LAMBDA h:
    IF h.err # "nil" THEN Res(h.err, x, b)
    ELSE outerEntries(h.rest, x, Nat64(h.val), trusted, b))

\* var dst Outer
ZeroOuter == [P |-> GoNil, Ptrs |-> <<>>, PtrMap |-> {}]

MaxPtrs == 2

InnerPtrs == {GoNil} \cup {GoPointer(GoString(s)) : s \in {<<>>, <<97>>}}
MapKeys == {<<120>>, <<121>>}

\* the values of Outer; the entries of PtrMap have distinct keys and come in
\* the order range yields them
OuterValues ==
    [P : InnerPtrs,
     Ptrs : SeqsUpTo(InnerPtrs, MaxPtrs),
     PtrMap : {m \in SeqsUpTo(MapKeys \X InnerPtrs, MaxPtrs) :
                  \A i, j \in 1..Len(m) : m[i][1] = m[j][1] => i = j}]

SeqToSet(s) == {s[i] : i \in 1..Len(s)}

InitOuter ==
    /\ fn = "record"
    /\ val \in OuterValues
    /\ wire = <<>>
    /\ res = IdleRes
    /\ ReaderIdle
    /\ PoolIdle
    /\ generatedStructs = {}

MarshalOuter ==
    /\ fn = "record"
    /\ wire' = outerMarshalCBOR(<<>>, val)
    /\ fn' = "MarshalCBOR"
    /\ UNCHANGED <<val, res, readerVars, poolVars, generatedStructs>>

DecodeOuter(name, trusted) ==
    /\ fn = "MarshalCBOR"
    /\ res' = outerDecode(wire, ZeroOuter, trusted)
    /\ fn' = name
    /\ UNCHANGED <<val, wire, readerVars, poolVars, generatedStructs>>

NextOuter ==
    \/ MarshalOuter
    \/ DecodeOuter("DecodeSafe", FALSE)
    \/ DecodeOuter("DecodeTrusted", TRUE)

SpecOuter == InitOuter /\ [][NextOuter]_vars

\* C29: for every value of the record, with or without null pointer fields,
\* null elements in slices of pointers and null values in maps to pointers,
\* MarshalCBOR followed by DecodeSafe or by DecodeTrusted into a zero-valued
\* destination succeeds, leaves an empty remainder and reproduces the value
C29_RoundTripWithNulls ==
    fn \in {"DecodeSafe", "DecodeTrusted"} =>
        /\ res.err = "nil"
        /\ res.rest = <<>>
        /\ res.val.P = val.P
        /\ res.val.Ptrs = val.Ptrs
        /\ res.val.PtrMap = SeqToSet(val.PtrMap)

\* C30: for every byte string, also one that ends right after an array, map
\* or tag header, ToJSONBytes and DiagBytes return a result or an error
\* value: neither reads a byte at or beyond the end of its input (an index
\* out of range there is a run-time panic)
C30_NoReadBeyondInput ==
    fn \in {"ToJSONBytes", "DiagBytes"} => res.err # "panic"

====
